---------------------------- MODULE Spec2Model ----------------------------
(***************************************************************************)
(* A model of the LUKS crypto-wipe pipelines of the repository:            *)
(*   src/core.rs  perform_luks_crypto_wipe   (library pipeline, "core")    *)
(*   src/main.rs  perform_luks_crypto_wipe_ui (GUI worker pipeline, "gui") *)
(*   src/main.rs  perform_luks_crypto_wipe    (CLI pipeline, "cli")        *)
(*                                                                         *)
(* A session is one call of one of these functions.  The external          *)
(* commands (findmnt, umount, lsblk, cryptsetup, dd) and the file system   *)
(* are the environment: each call of one of them returns success or        *)
(* failure, chosen by the environment.                                     *)
(*                                                                         *)
(* Progress fractions are f32 values in the source.  Every fraction a      *)
(* session reports is a multiple of 1/(100 * device_size), so the model    *)
(* keeps the numerator over that fixed denominator (Den) and is exact;     *)
(* f32 rounding is monotone, so the order of the fractions is kept by it.  *)
(* The ratio the overwrite reports is computed from two u64 values cast    *)
(* to f32 (core.rs:307): the casts are modelled by as_f32 and the two      *)
(* operands of every reported ratio are kept in fill_progress.             *)
(***************************************************************************)
EXTENDS Integers, Sequences, FiniteSets, TLC

(***************************************************************************)
(* Bounds of the model                                                     *)
(***************************************************************************)
\* device sizes range over 0 .. MaxBlocks * block_size
MaxBlocks == 2
\* the largest number of consecutive format attempts a device rejects
MaxRejects == 2
\* how many short reads the environment may deliver during one verification
MaxShortReads == 1
\* the overwrite alone is run on devices of up to MaxFillBlocks blocks and a rest
MaxFillBlocks == 16

(***************************************************************************)
(* Program constants                                                       *)
(***************************************************************************)
\* core.rs:281 and core.rs:353: 1024 * 1024
block_size == 1048576
\* core.rs:307: an f32 has 24 significant bits, 2^24
f32_significand == 16777216

Sessions == {1, 2}

Max(a, b) == IF a >= b THEN a ELSE b

Last(seq) == seq[Len(seq)]

(***************************************************************************)
(* Strings are sequences of one-character strings, so that formatting,     *)
(* escaping and "contains" are computed and not assumed.  A fixed piece of *)
(* output text is one element.                                             *)
(***************************************************************************)
Digits == {"0", "1", "2", "3", "4", "5", "6", "7", "8", "9"}

DevPrefix == <<"/", "d", "e", "v", "/">>

\* the device paths sessions are started on
DevSdb == DevPrefix \o <<"s", "d", "b">>
DevSdb1 == DevPrefix \o <<"s", "d", "b", "1">>
DevSdb2 == DevPrefix \o <<"s", "d", "b", "2">>
DevLabel == DevPrefix \o <<"l", "\\", "x">>
\* a whole disk whose name holds a digit (as nvme0n1, mmcblk0) and its partition
DevMmc == DevPrefix \o <<"m", "0">>
DevMmcP1 == DevPrefix \o <<"m", "0", "p", "1">>
Devices == {DevSdb, DevSdb1, DevLabel, DevMmc}

\* the block-device tree the environment reports: the lines lsblk -ln -o NAME
\* prints for a path after the first one, in their order
Partitions(path) ==
    IF path = DevSdb THEN <<DevSdb1, DevSdb2>>
    ELSE IF path = DevMmc THEN <<DevMmcP1>>
    ELSE <<>>

Range(seq) == {seq[i] : i \in 1..Len(seq)}

IsPrefix(p, t) == Len(p) <= Len(t) /\ SubSeq(t, 1, Len(p)) = p

Contains(t, p) ==
    \E i \in 0..(Len(t) - Len(p)) : SubSeq(t, i + 1, i + Len(p)) = p

\* str::strip_prefix("/dev/").unwrap_or(device)
strip_dev_prefix(path) ==
    IF IsPrefix(DevPrefix, path) THEN SubSeq(path, Len(DevPrefix) + 1, Len(path))
    ELSE path

\* device_name.chars().any(|c| c.is_ascii_digit())
has_ascii_digit(name) == \E i \in 1..Len(name) : name[i] \in Digits

DeviceSizes ==
    {n \in {k * block_size + r : k \in 0..MaxBlocks, r \in {0, 1, block_size - 1}} :
        n <= MaxBlocks * block_size}

\* Uuid::new_v4(): two groups of hex digits stand for the five of a UUID
Uuids == {<<"a", "1">>, <<"b", "2">>}

\* Uuid::to_string(): the groups joined by hyphens
uuid_to_string(id) == <<id[1], "-", id[2]>>

\* the mapper name built without the id
uuid_simple_ignores_id(id) == <<>>

\* Uuid::simple(): the groups without hyphens
uuid_simple(id) == <<id[1], id[2]>>

\* generate_random_passphrase(): strings over the charset of core.rs:216
Passphrases == {<<"A", "z">>, <<"7", "!">>}

\* chrono::Utc::now() at certificate generation
Timestamps == {"2025-01-01 00:00:00 UTC", "2025-01-01 00:00:01 UTC"}

NoString == <<>>


(***************************************************************************)
(* The state.                                                              *)
(*   sess        the sessions: the local variables, the program position of *)
(*               each call of a wipe pipeline, and its observable history   *)
(*               (progress events, stage actions invoked and their results, *)
(*               the value returned)                                        *)
(*   disk_size   the byte size the file system reports for the target       *)
(*   header_size the bytes of the target that hold the LUKS header and are  *)
(*               not part of the mapped device                              *)
(*   mounted     the device paths that are mounted                          *)
(*   rejects     how many further format attempts the target rejects        *)
(*   mapper_open whether the mapper a session opened exists                 *)
(*   gui         the GUI of main.rs: the DriveWipeApp, the ProgressInfo it  *)
(*               shares with its worker thread, the holder of the mutex     *)
(*               around it, and the worker thread                           *)
(*   listing     one enumeration of the block devices: what lsblk does and  *)
(*               prints, and what each of the enumerating functions         *)
(*               returned for it                                            *)
(*   cli         the command line of main.rs: the arguments, the position   *)
(*               of main, what the user was asked and typed                 *)
(***************************************************************************)
VARIABLES sess, disk_size, header_size, mounted, rejects, mapper_open, gui, listing,
          cli

vars == <<sess, disk_size, header_size, mounted, rejects, mapper_open, gui, listing, cli>>

\* what an external command or a file operation can answer
Outcomes == {"ok", "exit_fail", "io_err"}

\* a session that was not started
IdleSession ==
    [entry |-> "none", pc |-> "idle", device |-> NoString, verify |-> FALSE,
     device_size |-> 0, removable |-> FALSE, wipe_id |-> NoString,
     passphrase |-> NoString, mapper_name |-> NoString,
     bytes_written |-> 0, writes |-> <<>>, fill_progress |-> <<>>,
     dd_status |-> "none", bytes_read |-> 0,
     reads |-> <<>>, last_nonzero |-> FALSE, nonzero_read |-> FALSE, short_reads |-> 0,
     completion_time |-> "", umounts |-> <<>>,
     events |-> <<>>, calls |-> <<>>, rets |-> <<>>,
     result |-> "none", error |-> "", certificate |-> NoString]

\* a call perform_luks_crypto_wipe(device, verify, progress_callback) at its entry
NewSession(e, d, v) ==
    [IdleSession EXCEPT !.entry = e, !.pc = "start", !.device = d, !.verify = v]

\* one unit of the denominator: fractions are numerators over 100 * Unit
Unit == Max(disk_size, 1)

Den == 100 * Unit

\* progress_callback(fraction, status)
Emit(r, num, st) ==
    [r EXCEPT !.events = Append(@, [fraction |-> num, status |-> st])]

\* a stage action is invoked
Invoke(r, op) == [r EXCEPT !.calls = Append(@, op)]

\* a stage action returns
Returned(r, res) == [r EXCEPT !.rets = Append(@, res)]

\* what a stage action returns for an outcome of the environment
ResultOf(outcome) == IF outcome = "ok" THEN "ok" ELSE "err"

\* `?` on an Err, and `return Err(..)`: the function returns the error
Propagate(r, msg) ==
    [r EXCEPT !.pc = "done", !.result = "err", !.error = msg]

\* core.rs:160-212: the local `passphrase` lives from its let to the return
\* of the function; nothing drops or overwrites it earlier
passphrase_in_scope(r) == r.passphrase # NoString /\ r.pc # "done"

\* `?` on a Result, and `if !output.status.success()`: whether the call went well
IsOk_ignores_failure(outcome) == TRUE

IsOk(outcome) == outcome = "ok"

(***************************************************************************)
(* core.rs: is_removable_device                                            *)
(***************************************************************************)
\* what /sys/block/<base>/removable holds ("" when it cannot be read)
SysfsRemovable(base) == IF base = <<"s", "d", "b">> THEN "1" ELSE ""

RECURSIVE trim_end_digits(_)
trim_end_digits(name) ==
    IF Len(name) > 0 /\ name[Len(name)] \in Digits
    THEN trim_end_digits(SubSeq(name, 1, Len(name) - 1))
    ELSE name

is_removable_device(device_name) ==
    LET base == IF has_ascii_digit(device_name)
                THEN trim_end_digits(device_name) ELSE device_name
    IN  IF SysfsRemovable(base) # ""
        THEN SysfsRemovable(base) = "1"
        ELSE IsPrefix(<<"s", "d">>, base) /\ ~IsPrefix(<<"s", "d", "a">>, base)

(***************************************************************************)
(* core.rs: auto_unmount_device.  mnt is the set of mounted paths (what    *)
(* findmnt answers), busy the set of paths whose umount exits with         *)
(* failure, lsblk_ok whether lsblk exits with success, no_spawn the        *)
(* command that cannot be started ("none" when all can).  The result of    *)
(* the call on a partition is dropped (let _ = ...).  The result holds the *)
(* paths umount was run on, in order.                                      *)
(***************************************************************************)
SpawnFailures == {"none", "findmnt", "umount", "lsblk"}

UnmountErr(mnt, umounts, msg) ==
    [ok |-> FALSE, mounted |-> mnt, umounts |-> umounts, error |-> msg]

UnmountOk(mnt, umounts) ==
    [ok |-> TRUE, mounted |-> mnt, umounts |-> umounts, error |-> ""]

RECURSIVE auto_unmount_device(_, _, _, _, _)
RECURSIVE unmount_partitions(_, _, _, _, _, _)
auto_unmount_device(device_path, mnt, busy, lsblk_ok, no_spawn) ==
    LET device_name == strip_dev_prefix(device_path)
        is_mounted == device_path \in mnt
    IN  IF no_spawn = "findmnt" THEN UnmountErr(mnt, <<>>, "spawn")
        ELSE IF is_mounted /\ no_spawn = "umount" THEN UnmountErr(mnt, <<>>, "spawn")
        ELSE IF is_mounted /\ device_path \in busy
        THEN UnmountErr(mnt, <<device_path>>, "Failed to unmount")
        ELSE LET m1 == mnt \ {device_path}
                 u1 == IF is_mounted THEN <<device_path>> ELSE <<>>
             IN  IF has_ascii_digit(device_name) THEN UnmountOk(m1, u1)
                 ELSE IF no_spawn = "lsblk" THEN UnmountErr(m1, u1, "spawn")
                 ELSE IF ~lsblk_ok THEN UnmountOk(m1, u1)
                 ELSE unmount_partitions(Partitions(device_path), m1, u1,
                                         busy, lsblk_ok, no_spawn)

\* core.rs:132-135: the loop over the partitions
unmount_partitions(parts, mnt, umounts, busy, lsblk_ok, no_spawn) ==
    IF parts = <<>> THEN UnmountOk(mnt, umounts)
    ELSE LET res == auto_unmount_device(Head(parts), mnt, busy, lsblk_ok, no_spawn)
         IN  unmount_partitions(Tail(parts), res.mounted, umounts \o res.umounts,
                                busy, lsblk_ok, no_spawn)

(***************************************************************************)
(* core.rs: generate_completion_certificate.  serde_json writes a string   *)
(* field between quotes with `"` and `\` escaped by a backslash.           *)
(***************************************************************************)
json_escape_char(c) ==
    IF c = "\"" THEN <<"\\", "\"">>
    ELSE IF c = "\\" THEN <<"\\", "\\">>
    ELSE <<c>>

RECURSIVE json_escape(_)
json_escape(str) ==
    IF str = <<>> THEN <<>>
    ELSE json_escape_char(Head(str)) \o json_escape(Tail(str))

json_string(str) == <<"\"">> \o json_escape(str) \o <<"\"">>

generate_completion_certificate(device, wipe_id, now) ==
    <<"{ operation_id: ">> \o json_string(uuid_to_string(wipe_id))
        \o <<", device: ">> \o json_string(device)
        \o <<", method: ">> \o json_string(<<"LUKS2 AES-XTS-256 Encryption">>)
        \o <<", key_size: 512, hash_algorithm: ">> \o json_string(<<"SHA-256">>)
        \o <<", process_steps: [...], security_status: ...">>
        \o <<", completion_time: ">> \o json_string(<<now>>)
        \o <<", verification_status: ">>
        \o json_string(<<"VERIFIED SECURE">>) \o <<" }">>

(***************************************************************************)
(* core.rs: perform_luks_crypto_wipe, one action per stage action.         *)
(***************************************************************************)
\* the fraction numerator of h hundredths
Hundredths(h) == h * Unit

\* the spacing of the f32 values around n: the least power of two u, from
\* u upwards, with n / u below 2^24
RECURSIVE f32_ulp(_, _)
f32_ulp(n, u) == IF n \div u < f32_significand THEN u ELSE f32_ulp(n, 2 * u)

\* core.rs:307  `n as f32` of a u64: the nearest f32, ties to the even significand
as_f32(n) ==
    LET u == f32_ulp(n, 1)
        q == n \div u
        rest == n % u
        up == 2 * rest > u \/ (2 * rest = u /\ q % 2 = 1)
    IN  (IF up THEN q + 1 ELSE q) * u

\* core.rs:307  bytes_written as f32 / device_size as f32, kept as its two operands
f32_ratio(bytes_written, device_size) ==
    [num |-> as_f32(bytes_written), den |-> as_f32(device_size)]

\* the quotient of two f32 values is 1.0 exactly when they are equal
is_one(ratio) == ratio.num = ratio.den

\* the capacity of /dev/mapper/<name>: the raw device without its header area
mapper_capacity == disk_size - header_size

\* core.rs:180  0.25 + fill_progress * 0.50, fill_progress = bytes_written / device_size
overall_fill_progress_wrong_weight(bytes_written) == Hundredths(25) + 60 * bytes_written

overall_fill_progress(bytes_written) == Hundredths(25) + 50 * bytes_written

\* core.rs:200  0.90 + verify_progress * 0.10, verify_progress = bytes_read / device_size
overall_verify_progress(bytes_read) == Hundredths(90) + 10 * bytes_read

\* a next write of no byte at all
write_size_zero(remaining) == 0

\* the next write one byte short of a block
write_size_short_block(remaining) ==
    IF remaining < block_size THEN remaining ELSE block_size - 1

\* core.rs:295-300  the bytes of the next write

write_size(remaining) == IF remaining < block_size THEN remaining ELSE block_size

\* core.rs:181-184 and 201-204: format!("...: {:.1}%", progress * 100.0); the
\* percentage printed is a function of the two byte counts, which stand for it
percent_status(text, bytes, size) == <<text, ToString(bytes), "/", ToString(size)>>

Update(s, r) == sess' = [sess EXCEPT ![s] = r]

\* core.rs:143-145
CoreStart(s) ==
    /\ sess[s].entry = "core" /\ sess[s].pc = "start"
    /\ \E id \in Uuids, out \in {"ok", "io_err"} :
         LET r0 == [sess[s] EXCEPT !.wipe_id = id]
         IN  Update(s,
               IF IsOk(out)
               THEN Emit([r0 EXCEPT !.device_size = disk_size, !.pc = "unmount"],
                         0, <<"Starting LUKS crypto wipe for ">> \o r0.device)
               ELSE Propagate(r0, "get_device_size"))
    /\ UNCHANGED <<disk_size, header_size, mounted, rejects, mapper_open>>

\* core.rs:147-156
CoreUnmount(s) ==
    /\ sess[s].entry = "core" /\ sess[s].pc = "unmount"
    /\ \E busy \in SUBSET mounted, lsblk_ok \in BOOLEAN, no_spawn \in SpawnFailures :
         LET res == auto_unmount_device(sess[s].device, mounted, busy, lsblk_ok,
                                        no_spawn)
             r0 == [Invoke(Emit(sess[s], 0, <<"Preparing device...">>), "unmount")
                      EXCEPT !.umounts = res.umounts]
             out == IF res.ok THEN "ok" ELSE "exit_fail"
         IN  /\ mounted' = res.mounted
             /\ Update(s,
                  IF IsOk(out)
                  THEN Emit([Returned(r0, ResultOf(out)) EXCEPT
                                !.removable = is_removable_device(strip_dev_prefix(r0.device)),
                                !.pc = "keygen"],
                            Hundredths(5), <<"Device prepared">>)
                  ELSE Propagate(Returned(r0, "err"), res.error))
    /\ UNCHANGED <<disk_size, header_size, rejects, mapper_open>>

\* core.rs:161: the status reported once the passphrase exists
key_generated_status_leaks(passphrase) == <<"Cryptographic key generated: ">> \o passphrase

key_generated_status(passphrase) == <<"Cryptographic key generated">>

\* core.rs:158-161
CoreKeygen(s) ==
    /\ sess[s].entry = "core" /\ sess[s].pc = "keygen"
    /\ \E pass \in Passphrases :
         LET r0 == Invoke(Emit(sess[s], Hundredths(5),
                               <<"Generating cryptographic key...">>), "keygen")
         IN  Update(s, Emit([Returned(r0, "ok") EXCEPT !.passphrase = pass,
                                                        !.pc = "format"],
                            Hundredths(10), key_generated_status(pass)))
    /\ UNCHANGED <<disk_size, header_size, mounted, rejects, mapper_open>>

\* cryptsetup luksFormat: the device rejects the attempt while rejects > 0
FormatOutcome == IF rejects = 0 THEN "ok" ELSE "exit_fail"

\* core.rs:163-166 with a failed attempt made again, up to three attempts
CoreFormat_retries(s) ==
    /\ sess[s].entry = "core" /\ sess[s].pc = "format"
    /\ LET r0 == Invoke(Emit(sess[s], Hundredths(10),
                             <<"Setting up LUKS encryption...">>), "format")
       IN  Update(s,
             IF IsOk(FormatOutcome)
             THEN Emit([Returned(r0, ResultOf(FormatOutcome)) EXCEPT !.pc = "open"],
                       Hundredths(20), <<"LUKS encryption setup complete">>)
             ELSE IF Len(r0.calls) < 5
             THEN Returned(r0, "err")
             ELSE Propagate(Returned(r0, "err"), "Failed to create LUKS partition"))
    /\ rejects' = Max(rejects - 1, 0)
    /\ UNCHANGED <<disk_size, header_size, mounted, mapper_open>>

\* core.rs:163-166 and create_luks_partition (225-255): one attempt
CoreFormat(s) ==
    /\ sess[s].entry = "core" /\ sess[s].pc = "format"
    /\ LET r0 == Invoke(Emit(sess[s], Hundredths(10),
                             <<"Setting up LUKS encryption...">>), "format")
       IN  Update(s,
             IF IsOk(FormatOutcome)
             THEN Emit([Returned(r0, ResultOf(FormatOutcome)) EXCEPT !.pc = "open"],
                       Hundredths(20), <<"LUKS encryption setup complete">>)
             ELSE Propagate(Returned(r0, "err"), "Failed to create LUKS partition"))
    /\ rejects' = Max(rejects - 1, 0)
    /\ UNCHANGED <<disk_size, header_size, mounted, mapper_open>>

\* core.rs:168-172 and open_luks_partition (257-278)
CoreOpen(s) ==
    /\ sess[s].entry = "core" /\ sess[s].pc = "open"
    /\ \E out \in Outcomes :
         LET r0 == Invoke([Emit(sess[s], Hundredths(20),
                                <<"Opening encrypted partition...">>)
                              EXCEPT !.mapper_name =
                                  <<"cryptowipe_">> \o uuid_simple(sess[s].wipe_id)],
                          "open")
         IN  /\ mapper_open' = [mapper_open EXCEPT ![s] = (out = "ok")]
             /\ Update(s,
                  IF IsOk(out)
                  THEN Emit([Returned(r0, ResultOf(out)) EXCEPT !.pc = "fill"],
                            Hundredths(25), <<"Encrypted partition opened">>)
                  ELSE Propagate(Returned(r0, "err"), "Failed to open LUKS partition"))
    /\ UNCHANGED <<disk_size, header_size, mounted, rejects>>

\* core.rs:174-176 and fill_with_random_data (280-288): the mapper is opened
CoreFillOpen(s) ==
    /\ sess[s].entry = "core" /\ sess[s].pc = "fill"
    /\ \E out \in {"ok", "io_err"} :
         LET r0 == Invoke(Emit(sess[s], Hundredths(25),
                               <<"Starting secure data overwrite...">>), "overwrite")
         IN  Update(s,
               IF IsOk(out)
               THEN [r0 EXCEPT !.bytes_written = 0, !.pc = "fill_loop"]
               ELSE Propagate(Returned(r0, "err"), "open mapper"))
    /\ UNCHANGED <<disk_size, header_size, mounted, rejects, mapper_open>>

\* core.rs:304  file.write_all(&buffer[..write_size]) on the mapped device:
\* a write that would end beyond its capacity fails
write_all_outcomes(written) ==
    IF written <= mapper_capacity THEN {"ok", "io_err"} ELSE {"io_err"}

\* core.rs:290-309: one iteration of the overwrite loop
CoreFillWrite(s) ==
    /\ sess[s].entry = "core" /\ sess[s].pc = "fill_loop"
    /\ sess[s].bytes_written < sess[s].device_size
    /\ LET r0 == sess[s]
           remaining == r0.device_size - r0.bytes_written
           n == write_size(remaining)
           written == r0.bytes_written + n
       IN  \E out \in write_all_outcomes(written) :
             Update(s,
               IF IsOk(out)
               THEN Emit([r0 EXCEPT !.writes = Append(@, n),
                                    !.bytes_written = written,
                                    !.fill_progress =
                                        Append(@, f32_ratio(written, r0.device_size))],
                         overall_fill_progress(written),
                         percent_status("Overwriting with encrypted random data: ",
                                        written, r0.device_size))
               ELSE Propagate(Returned(r0, "err"), "write_all"))
    /\ UNCHANGED <<disk_size, header_size, mounted, rejects, mapper_open>>

\* core.rs:311-312 and 187: the loop is left, sync_all, fill returns
CoreFillEnd(s) ==
    /\ sess[s].entry = "core" /\ sess[s].pc = "fill_loop"
    /\ ~(sess[s].bytes_written < sess[s].device_size)
    /\ \E out \in {"ok", "io_err"} :
         Update(s,
           IF IsOk(out)
           THEN Emit([Returned(sess[s], ResultOf(out)) EXCEPT !.pc = "close"],
                     Hundredths(75), <<"Data overwrite complete">>)
           ELSE Propagate(Returned(sess[s], "err"), "sync_all"))
    /\ UNCHANGED <<disk_size, header_size, mounted, rejects, mapper_open>>

\* core.rs:189-192 with the result of close_luks_partition dropped
CoreClose_ignores_failure(s) ==
    /\ sess[s].entry = "core" /\ sess[s].pc = "close"
    /\ \E out \in Outcomes :
         LET r0 == Invoke(Emit(sess[s], Hundredths(75),
                               <<"Closing encrypted partition...">>), "close")
         IN  /\ mapper_open' = [mapper_open EXCEPT ![s] = IF out = "ok" THEN FALSE ELSE @]
             /\ Update(s, Emit([Returned(r0, ResultOf(out)) EXCEPT !.pc = "destroy"],
                               Hundredths(80), <<"Destroying encryption keys...">>))
    /\ UNCHANGED <<disk_size, header_size, mounted, rejects>>

\* core.rs:189-192 and close_luks_partition (315-328)
CoreClose(s) ==
    /\ sess[s].entry = "core" /\ sess[s].pc = "close"
    /\ \E out \in Outcomes :
         LET r0 == Invoke(Emit(sess[s], Hundredths(75),
                               <<"Closing encrypted partition...">>), "close")
         IN  /\ mapper_open' = [mapper_open EXCEPT ![s] = IF out = "ok" THEN FALSE ELSE @]
             /\ Update(s,
                  IF IsOk(out)
                  THEN Emit([Returned(r0, ResultOf(out)) EXCEPT !.pc = "destroy"],
                            Hundredths(80), <<"Destroying encryption keys...">>)
                  ELSE Propagate(Returned(r0, "err"), "Failed to close LUKS partition"))
    /\ UNCHANGED <<disk_size, header_size, mounted, rejects>>

\* core.rs:196-206: where the pipeline goes after the header was destroyed
after_destroy_always_verify(verify) == "verify"

after_destroy(verify) == IF verify THEN "verify" ELSE "finish"

\* core.rs:193-194 and destroy_luks_header (330-349)
CoreDestroy(s) ==
    /\ sess[s].entry = "core" /\ sess[s].pc = "destroy"
    /\ \E out \in Outcomes :
         LET r0 == Invoke(sess[s], "destroy")
         IN  Update(s,
               IF IsOk(out)
               THEN Emit([Returned(r0, ResultOf(out)) EXCEPT !.pc = after_destroy(r0.verify)],
                         Hundredths(90), <<"Keys and headers destroyed">>)
               ELSE Propagate(Returned(r0, "err"), "Failed to destroy LUKS header"))
    /\ UNCHANGED <<disk_size, header_size, mounted, rejects, mapper_open>>

\* core.rs:197-199 and verify_wipe (351-357): the size is read, the device opened
CoreVerifyOpen(s) ==
    /\ sess[s].entry = "core" /\ sess[s].pc = "verify"
    /\ \E out \in {"ok", "io_err"} :
         LET r0 == Invoke(Emit(sess[s], Hundredths(90),
                               <<"Starting verification...">>), "verify")
         IN  Update(s,
               IF IsOk(out)
               THEN [r0 EXCEPT !.bytes_read = 0, !.last_nonzero = FALSE,
                               !.pc = "verify_loop"]
               ELSE Propagate(Returned(r0, "err"), "open device"))
    /\ UNCHANGED <<disk_size, header_size, mounted, rejects, mapper_open>>

\* what file.read may return for a buffer of read_size bytes: an error (-1),
\* end of file (0), the whole buffer or fewer bytes
ReadResults(r, read_size) ==
    {-1, 0, read_size}
        \cup (IF r.short_reads < MaxShortReads /\ read_size > 1 THEN {1} ELSE {})

\* the flag following the last block only
block_checked_last_only(last_nonzero, nonzero) == nonzero

\* core.rs:372-375: the flag after a block was inspected; nonzero tells whether
\* the bytes read hold a non-zero byte
block_checked(last_nonzero, nonzero) == IF nonzero THEN TRUE ELSE last_nonzero

\* core.rs:359-382: one iteration of the verification loop
CoreVerifyRead(s) ==
    /\ sess[s].entry = "core" /\ sess[s].pc = "verify_loop"
    /\ sess[s].bytes_read < disk_size
    /\ LET r0 == sess[s]
           remaining == disk_size - r0.bytes_read
           read_size == IF remaining < block_size THEN remaining ELSE block_size
       IN  \E bytes \in ReadResults(r0, read_size), nonzero \in BOOLEAN :
             Update(s,
               IF bytes = -1 THEN Propagate(Returned(r0, "err"), "read")
               ELSE IF bytes = 0 THEN [r0 EXCEPT !.pc = "verify_end"]
               ELSE Emit([r0 EXCEPT
                            !.last_nonzero = block_checked(@, nonzero),
                            !.nonzero_read = @ \/ nonzero,
                            !.bytes_read = @ + bytes,
                            !.reads = Append(@, bytes),
                            !.short_reads = IF bytes < read_size THEN @ + 1 ELSE @,
                            !.pc = IF r0.bytes_read + bytes < disk_size
                                   THEN "verify_loop" ELSE "verify_end"],
                         overall_verify_progress(r0.bytes_read + bytes),
                         percent_status("Verifying wipe: ",
                                        r0.bytes_read + bytes, disk_size)))
    /\ UNCHANGED <<disk_size, header_size, mounted, rejects, mapper_open>>

\* core.rs:384-388: the loop is left, verify_wipe returns
CoreVerifyEnd(s) ==
    /\ sess[s].entry = "core"
    /\ \/ sess[s].pc = "verify_end"
       \/ sess[s].pc = "verify_loop" /\ ~(sess[s].bytes_read < disk_size)
    /\ Update(s,
         IF sess[s].last_nonzero
         THEN Propagate(Returned(sess[s], "err"), "Verification failed: non-zero data found")
         ELSE [Returned(sess[s], "ok") EXCEPT !.pc = "finish"])
    /\ UNCHANGED <<disk_size, header_size, mounted, rejects, mapper_open>>

\* core.rs:208-211 with the certificate handed over before the last event
CoreFinish_reports_after_outcome(s) ==
    /\ sess[s].entry = "core" /\ sess[s].pc = "finish"
    /\ \E now \in Timestamps :
         Update(s,
           IF sess[s].result = "none"
           THEN [Returned(Invoke(sess[s], "certificate"), "ok") EXCEPT
                   !.completion_time = now,
                   !.certificate =
                       generate_completion_certificate(sess[s].device,
                                                       sess[s].wipe_id, now),
                   !.result = "cert"]
           ELSE [Emit(sess[s], Hundredths(100), <<"Operation complete!">>)
                   EXCEPT !.pc = "done"])
    /\ UNCHANGED <<disk_size, header_size, mounted, rejects, mapper_open>>

\* core.rs:208-211
CoreFinish(s) ==
    /\ sess[s].entry = "core" /\ sess[s].pc = "finish"
    /\ \E now \in Timestamps :
         LET r0 == Invoke(Emit(sess[s], Hundredths(100), <<"Operation complete!">>),
                          "certificate")
         IN  Update(s, [Returned(r0, "ok") EXCEPT
                          !.completion_time = now,
                          !.certificate =
                              generate_completion_certificate(r0.device, r0.wipe_id, now),
                          !.result = "cert",
                          !.pc = "done"])
    /\ UNCHANGED <<disk_size, header_size, mounted, rejects, mapper_open>>

CoreStep(s) ==
    \/ CoreStart(s) \/ CoreUnmount(s) \/ CoreKeygen(s) \/ CoreFormat(s)
    \/ CoreOpen(s) \/ CoreFillOpen(s) \/ CoreFillWrite(s) \/ CoreFillEnd(s)
    \/ CoreClose(s) \/ CoreDestroy(s) \/ CoreVerifyOpen(s) \/ CoreVerifyRead(s)
    \/ CoreVerifyEnd(s) \/ CoreFinish(s)

(***************************************************************************)
(* main.rs: perform_luks_crypto_wipe_ui, the pipeline of the GUI worker.   *)
(***************************************************************************)
\* main.rs:677-695: format!() writes the id and the device as they are
certificate_text(device, wipe_id, now) ==
    <<"LUKS CRYPTO WIPE COMPLETION CERTIFICATE\n", "Operation ID: ">>
        \o uuid_to_string(wipe_id) \o <<"\n", "Device: ">> \o device
        \o <<"\n", "Method: LUKS2 AES-XTS-256 Encryption ...", "Completed: ", now>>

\* main.rs:650-653
GuiKeygen(s) ==
    /\ sess[s].entry = "gui" /\ sess[s].pc = "start"
    /\ \E id \in Uuids, pass \in Passphrases :
         LET r0 == Invoke(Emit([sess[s] EXCEPT !.wipe_id = id], Hundredths(5),
                               <<"Generating cryptographic key...">>), "keygen")
         IN  Update(s, [Returned(r0, "ok") EXCEPT !.passphrase = pass, !.pc = "format"])
    /\ UNCHANGED <<disk_size, header_size, mounted, rejects, mapper_open>>

\* main.rs:655-656 and create_luks_partition (1069-1099)
GuiFormat(s) ==
    /\ sess[s].entry = "gui" /\ sess[s].pc = "format"
    /\ LET r0 == Invoke(Emit(sess[s], Hundredths(15),
                             <<"Setting up LUKS encryption...">>), "format")
       IN  Update(s,
             IF IsOk(FormatOutcome)
             THEN [Returned(r0, ResultOf(FormatOutcome)) EXCEPT !.pc = "open"]
             ELSE Propagate(Returned(r0, "err"), "Failed to create LUKS partition"))
    /\ rejects' = Max(rejects - 1, 0)
    /\ UNCHANGED <<disk_size, header_size, mounted, mapper_open>>

\* main.rs:658-660 and open_luks_partition (1101-1122)
GuiOpen(s) ==
    /\ sess[s].entry = "gui" /\ sess[s].pc = "open"
    /\ \E out \in Outcomes :
         LET r0 == Invoke([Emit(sess[s], Hundredths(25),
                                <<"Opening encrypted partition...">>)
                              EXCEPT !.mapper_name =
                                  <<"cryptowipe_">> \o uuid_simple(sess[s].wipe_id)],
                          "open")
         IN  /\ mapper_open' = [mapper_open EXCEPT ![s] = (out = "ok")]
             /\ Update(s,
                  IF IsOk(out)
                  THEN [Returned(r0, ResultOf(out)) EXCEPT !.pc = "fill"]
                  ELSE Propagate(Returned(r0, "err"), "Failed to open LUKS partition"))
    /\ UNCHANGED <<disk_size, header_size, mounted, rejects>>

\* main.rs:714-720: dd's exit status is not looked at, only whether it ran
dd_ran(out) == out # "io_err"

\* main.rs:662-663 and fill_with_random_data_ui (700-721): dd writes to the mapper
GuiFill(s) ==
    /\ sess[s].entry = "gui" /\ sess[s].pc = "fill"
    /\ \E out \in Outcomes :
         LET r0 == [Invoke(Emit(sess[s], Hundredths(35),
                                <<"Filling with encrypted random data...">>),
                           "overwrite")
                       EXCEPT !.dd_status = out]
         IN  Update(s,
               IF dd_ran(out)
               THEN Emit([Returned(r0, "ok") EXCEPT !.pc = "close"],
                         Hundredths(80), <<"Random data fill completed">>)
               ELSE Propagate(Returned(r0, "err"), "dd"))
    /\ UNCHANGED <<disk_size, header_size, mounted, rejects, mapper_open>>

\* main.rs:665-666 and close_luks_partition (1139-1152)
GuiClose(s) ==
    /\ sess[s].entry = "gui" /\ sess[s].pc = "close"
    /\ \E out \in Outcomes :
         LET r0 == Invoke(Emit(sess[s], Hundredths(85),
                               <<"Closing partition and destroying keys...">>), "close")
         IN  /\ mapper_open' = [mapper_open EXCEPT ![s] = IF out = "ok" THEN FALSE ELSE @]
             /\ Update(s,
                  IF IsOk(out)
                  THEN [Returned(r0, ResultOf(out)) EXCEPT !.pc = "destroy"]
                  ELSE Propagate(Returned(r0, "err"), "Failed to close LUKS partition"))
    /\ UNCHANGED <<disk_size, header_size, mounted, rejects>>

\* main.rs:667 and destroy_luks_header (1154-1174)
GuiDestroy(s) ==
    /\ sess[s].entry = "gui" /\ sess[s].pc = "destroy"
    /\ \E out \in Outcomes :
         LET r0 == Invoke(sess[s], "destroy")
         IN  Update(s,
               IF IsOk(out)
               THEN [Returned(r0, ResultOf(out)) EXCEPT !.pc = after_destroy(r0.verify)]
               ELSE Propagate(Returned(r0, "err"), "Failed to destroy LUKS header"))
    /\ UNCHANGED <<disk_size, header_size, mounted, rejects, mapper_open>>

\* main.rs:669-672 and verify_wipe (1176-1200): dd reads the first 100 MB
GuiVerify(s) ==
    /\ sess[s].entry = "gui" /\ sess[s].pc = "verify"
    /\ \E out \in Outcomes :
         LET r0 == Invoke(Emit(sess[s], Hundredths(95),
                               <<"Verifying wipe completion...">>), "verify")
         IN  Update(s,
               IF IsOk(out)
               THEN [Returned(r0, ResultOf(out)) EXCEPT !.pc = "finish"]
               ELSE Propagate(Returned(r0, "err"), "Verification failed"))
    /\ UNCHANGED <<disk_size, header_size, mounted, rejects, mapper_open>>

\* main.rs:674-697
GuiFinish(s) ==
    /\ sess[s].entry = "gui" /\ sess[s].pc = "finish"
    /\ \E now \in Timestamps :
         LET r0 == Invoke(Emit(sess[s], Hundredths(100),
                               <<"Crypto wipe completed successfully!">>), "certificate")
         IN  Update(s, [Returned(r0, "ok") EXCEPT
                          !.completion_time = now,
                          !.certificate = certificate_text(r0.device, r0.wipe_id, now),
                          !.result = "cert",
                          !.pc = "done"])
    /\ UNCHANGED <<disk_size, header_size, mounted, rejects, mapper_open>>

GuiStep(s) ==
    \/ GuiKeygen(s) \/ GuiFormat(s) \/ GuiOpen(s) \/ GuiFill(s) \/ GuiClose(s)
    \/ GuiDestroy(s) \/ GuiVerify(s) \/ GuiFinish(s)

(***************************************************************************)
(* main.rs: perform_luks_crypto_wipe, the pipeline of the command line.    *)
(* It reports by printing; what it prints last is the completion report.   *)
(***************************************************************************)
\* main.rs:1012-1021
CliKeygen(s) ==
    /\ sess[s].entry = "cli" /\ sess[s].pc = "start"
    /\ \E id \in Uuids, pass \in Passphrases :
         Update(s, [Returned(Invoke(sess[s], "keygen"), "ok") EXCEPT
                      !.wipe_id = id, !.passphrase = pass, !.pc = "format"])
    /\ UNCHANGED <<disk_size, header_size, mounted, rejects, mapper_open>>

\* main.rs:1023-1026 and create_luks_partition (1069-1099)
CliFormat(s) ==
    /\ sess[s].entry = "cli" /\ sess[s].pc = "format"
    /\ LET r0 == Invoke(sess[s], "format")
       IN  Update(s,
             IF IsOk(FormatOutcome)
             THEN [Returned(r0, ResultOf(FormatOutcome)) EXCEPT !.pc = "open"]
             ELSE Propagate(Returned(r0, "err"), "Failed to create LUKS partition"))
    /\ rejects' = Max(rejects - 1, 0)
    /\ UNCHANGED <<disk_size, header_size, mounted, mapper_open>>

\* main.rs:1028-1032 and open_luks_partition (1101-1122)
CliOpen(s) ==
    /\ sess[s].entry = "cli" /\ sess[s].pc = "open"
    /\ \E out \in Outcomes :
         LET r0 == Invoke([sess[s] EXCEPT !.mapper_name =
                              <<"cryptowipe_">> \o uuid_simple(sess[s].wipe_id)],
                          "open")
         IN  /\ mapper_open' = [mapper_open EXCEPT ![s] = (out = "ok")]
             /\ Update(s,
                  IF IsOk(out)
                  THEN [Returned(r0, ResultOf(out)) EXCEPT !.pc = "fill"]
                  ELSE Propagate(Returned(r0, "err"), "Failed to open LUKS partition"))
    /\ UNCHANGED <<disk_size, header_size, mounted, rejects>>

\* main.rs:1034-1037 and fill_with_random_data (1124-1137)
CliFill(s) ==
    /\ sess[s].entry = "cli" /\ sess[s].pc = "fill"
    /\ \E out \in Outcomes :
         LET r0 == [Invoke(sess[s], "overwrite") EXCEPT !.dd_status = out]
         IN  Update(s,
               IF dd_ran(out)
               THEN [Returned(r0, "ok") EXCEPT !.pc = "close"]
               ELSE Propagate(Returned(r0, "err"), "dd"))
    /\ UNCHANGED <<disk_size, header_size, mounted, rejects, mapper_open>>

\* main.rs:1039-1041 and close_luks_partition (1139-1152)
CliClose(s) ==
    /\ sess[s].entry = "cli" /\ sess[s].pc = "close"
    /\ \E out \in Outcomes :
         LET r0 == Invoke(sess[s], "close")
         IN  /\ mapper_open' = [mapper_open EXCEPT ![s] = IF out = "ok" THEN FALSE ELSE @]
             /\ Update(s,
                  IF IsOk(out)
                  THEN [Returned(r0, ResultOf(out)) EXCEPT !.pc = "destroy"]
                  ELSE Propagate(Returned(r0, "err"), "Failed to close LUKS partition"))
    /\ UNCHANGED <<disk_size, header_size, mounted, rejects>>

\* main.rs:1042-1043 and destroy_luks_header (1154-1174)
CliDestroy(s) ==
    /\ sess[s].entry = "cli" /\ sess[s].pc = "destroy"
    /\ \E out \in Outcomes :
         LET r0 == Invoke(sess[s], "destroy")
         IN  Update(s,
               IF IsOk(out)
               THEN [Returned(r0, ResultOf(out)) EXCEPT !.pc = after_destroy(r0.verify)]
               ELSE Propagate(Returned(r0, "err"), "Failed to destroy LUKS header"))
    /\ UNCHANGED <<disk_size, header_size, mounted, rejects, mapper_open>>

\* main.rs:1045-1050 and verify_wipe (1176-1200)
CliVerify(s) ==
    /\ sess[s].entry = "cli" /\ sess[s].pc = "verify"
    /\ \E out \in Outcomes :
         LET r0 == Invoke(sess[s], "verify")
         IN  Update(s,
               IF IsOk(out)
               THEN [Returned(r0, ResultOf(out)) EXCEPT !.pc = "finish"]
               ELSE Propagate(Returned(r0, "err"), "Verification failed"))
    /\ UNCHANGED <<disk_size, header_size, mounted, rejects, mapper_open>>

\* main.rs:1052-1055 and generate_completion_report (1202-1223)
CliFinish(s) ==
    /\ sess[s].entry = "cli" /\ sess[s].pc = "finish"
    /\ \E now \in Timestamps :
         LET r0 == Invoke(sess[s], "certificate")
         IN  Update(s, [Returned(r0, "ok") EXCEPT
                          !.completion_time = now,
                          !.certificate = certificate_text(r0.device, r0.wipe_id, now),
                          !.result = "cert",
                          !.pc = "done"])
    /\ UNCHANGED <<disk_size, header_size, mounted, rejects, mapper_open>>

CliStep(s) ==
    \/ CliKeygen(s) \/ CliFormat(s) \/ CliOpen(s) \/ CliFill(s) \/ CliClose(s)
    \/ CliDestroy(s) \/ CliVerify(s) \/ CliFinish(s)

(***************************************************************************)
(* main.rs: the GUI.  DriveWipeApp (the UI thread), the ProgressInfo       *)
(* behind Arc<Mutex<..>> and the worker thread running                     *)
(* execute_crypto_wipe_threaded.  The worker's pipeline session is         *)
(* sess[1].  A frame of the UI is one action, except the frame that draws  *)
(* the progress screen: it holds the guard of try_lock while it draws, so  *)
(* taking and dropping the guard are two actions.                          *)
(***************************************************************************)
\* main.rs:24-32
NoProgressInfo ==
    [progress |-> 0, status |-> NoString, current_drive_index |-> 0,
     total_drives |-> 0, operation_id |-> NoString]

\* no worker thread
NoWorker ==
    [pc |-> "none", devices |-> <<>>, verify_mode |-> FALSE, drive_idx |-> 0,
     certificates |-> <<>>, result |-> "none", error |-> NoString]

\* main.rs:59-75  DriveWipeApp::default(); None is NoString / FALSE
AppDefault ==
    [state |-> "Landing", available_drives |-> <<>>, selected_drives |-> {},
     progress_info |-> FALSE, certificates |-> <<>>, error_message |-> NoString,
     confirmation_text |-> NoString, force_mode |-> FALSE, verify_mode |-> FALSE,
     wipe_handle |-> FALSE]

\* UI.rs:127-142: Default for the DriveWipeApp of the preview
PreviewDefault ==
    [state |-> "Landing", available_drives |-> <<>>, selected_drives |-> {},
     progress_info |-> FALSE, certificates |-> <<>>, error_message |-> NoString,
     confirmation_text |-> NoString, dark_mode |-> TRUE, force_mode |-> FALSE,
     verify_mode |-> FALSE]

\* program: the binary that runs, main.rs or the preview of UI.rs
GuiDefault ==
    [program |-> "main.rs", app |-> AppDefault, shared |-> NoProgressInfo,
     lock |-> "free", worker |-> NoWorker, preview |-> PreviewDefault]

\* what the user can type into the confirmation field
TypedTexts == {<<"DESTROY ALL DATA">>, <<" ", "DESTROY ALL DATA", " ">>,
               <<"FORCE WIPE">>, <<"destroy">>}

\* str::trim()
RECURSIVE trim_start(_)
trim_start(text) ==
    IF text # <<>> /\ Head(text) = " " THEN trim_start(Tail(text)) ELSE text

RECURSIVE trim_end(_)
trim_end(text) ==
    IF text # <<>> /\ text[Len(text)] = " "
    THEN trim_end(SubSeq(text, 1, Len(text) - 1)) ELSE text

trim(text) == trim_end(trim_start(text))

\* main.rs:354-358
confirm_text(force_mode) ==
    IF force_mode THEN <<"FORCE WIPE">> ELSE <<"DESTROY ALL DATA">>

(***************************************************************************)
(* The enumeration of block devices: core.rs list_block_devices, main.rs   *)
(* get_block_devices (GUI) and select_device_interactively (CLI).  A line  *)
(* of lsblk output is its first whitespace-separated part, the name with   *)
(* its tree characters, and the parts after it.  The tree characters of    *)
(* lsblk --tree are written "+" (U+251C), "L" (U+2514), "|" (U+2502) and   *)
(* "-" (U+2500).                                                           *)
(***************************************************************************)
\* what lsblk can print
LsblkOutputs ==
    LET LineSdb == [name |-> <<"s", "d", "b">>, rest |-> <<"1G", "disk">>]
        LineSdb1 == [name |-> <<"+", "-", "s", "d", "b", "1">>,
                     rest |-> <<"1G", "part">>]
        LineLabel == [name |-> <<"l", "\\", "x">>,
                      rest |-> <<"1G", "disk", "/mnt", "Model">>]
        LineLoop == [name |-> <<"l", "o", "o", "p", "0">>,
                     rest |-> <<"4K", "loop", "/snap">>]
        LineRam == [name |-> <<"r", "a", "m", "0">>, rest |-> <<"64M", "disk">>]
        LineSr == [name |-> <<"s", "r", "0">>, rest |-> <<"1024M", "rom">>]
        \* a line of fewer than three parts
        LineShort == [name |-> <<"s", "d", "c">>, rest |-> <<"1G">>]
    IN  {<<>>, <<LineShort>>, <<LineLoop, LineSr, LineRam>>,
         <<LineLoop, LineSdb, LineLabel>>, <<LineSdb1>>}

\* str::trim_start_matches(c)
RECURSIVE trim_start_matches(_, _)
trim_start_matches(text, c) ==
    IF text # <<>> /\ Head(text) = c THEN trim_start_matches(Tail(text), c) ELSE text

\* line.split_whitespace().collect(): the number of parts
parts_len(line) == 1 + Len(line.rest)

\* parts[0] without the leading tree characters (core.rs:72, main.rs:618, 885)
device_name(line) ==
    trim(trim_start_matches(trim_start_matches(trim_start_matches(line.name, "+"),
                                               "L"), "|"))

\* loop devices, ram disks and optical drives are skipped
skipped_name(name) ==
    \/ IsPrefix(<<"l", "o", "o", "p">>, name)
    \/ IsPrefix(<<"r", "a", "m">>, name)
    \/ IsPrefix(<<"s", "r">>, name)

\* the loop over the lines: the devices pushed, each with its path and the
\* part taken for its mount point
RECURSIVE parse_devices(_)
parse_devices(lines) ==
    IF lines = <<>> THEN <<>>
    ELSE LET line == Head(lines)
             name == device_name(line)
         IN  (IF parts_len(line) < 3 \/ skipped_name(name) THEN <<>>
              ELSE <<[path |-> DevPrefix \o name,
                      mountpoint |-> IF parts_len(line) > 3 THEN line.rest[3] ELSE ""]>>)
                 \o parse_devices(Tail(lines))

ListOk(devices) == [ok |-> TRUE, devices |-> devices, error |-> ""]
ListErr(msg) == [ok |-> FALSE, devices |-> <<>>, error |-> msg]

\* core.rs:55-98
list_block_devices(out, lines) ==
    IF out = "io_err" THEN ListErr("spawn")
    ELSE IF out = "exit_fail" THEN ListErr("Failed to get device list")
    ELSE LET devices == parse_devices(lines)
         IN  ListOk([i \in 1..Len(devices) |-> devices[i].path])

\* main.rs:601-644
get_block_devices(out, lines) ==
    IF out = "io_err" THEN ListErr("spawn")
    ELSE IF out = "exit_fail" THEN ListErr("Failed to get device list")
    ELSE LET devices == parse_devices(lines)
         IN  ListOk([i \in 1..Len(devices) |-> devices[i].path])

\* what the user types at the selection prompt: a number, or -1 for a text
\* that is no number
Choices == -1..3

\* what the user types at the prompt for a mounted device
RiskTexts == {<<"I UNDERSTAND THE RISK">>, <<"no">>}

\* main.rs:857-977: Ok(path) is a list of one path
select_device_interactively(out, lines, choice, risk_input) ==
    LET devices == parse_devices(lines)
    IN  IF out = "io_err" THEN ListErr("spawn")
        ELSE IF out = "exit_fail" THEN ListErr("Failed to get device list")
        ELSE IF lines = <<>> THEN ListErr("No storage devices found")
        ELSE IF devices = <<>> THEN ListErr("No suitable devices found")
        ELSE IF choice = -1 THEN ListErr("Invalid number")
        ELSE IF choice = 0 \/ choice > Len(devices) THEN ListErr("Invalid selection")
        ELSE LET selected == devices[choice]
             IN  IF /\ selected.mountpoint # "" /\ selected.mountpoint # "-"
                    /\ trim(risk_input) # <<"I UNDERSTAND THE RISK">>
                 THEN ListErr("Operation cancelled for safety")
                 ELSE ListOk(<<selected.path>>)

\* no enumeration was made
NoListing == [ok |-> FALSE, devices |-> <<>>, error |-> "none"]

IdleListing ==
    [out |-> "ok", lsblk |-> <<>>, core |-> NoListing, gui |-> NoListing,
     cli |-> NoListing]

\* a caller of core list_block_devices enumerates
ListCore ==
    /\ listing.core = NoListing
    /\ listing' = [listing EXCEPT !.core = list_block_devices(listing.out, listing.lsblk)]

\* load_available_drives (main.rs:519-524) enumerates
ListGui ==
    /\ listing.gui = NoListing
    /\ listing' = [listing EXCEPT !.gui = get_block_devices(listing.out, listing.lsblk)]

(***************************************************************************)
(* main.rs: main, the command line.  Arguments are strings; a flag starts  *)
(* with the character "-".                                                 *)
(***************************************************************************)
\* env::args(): the program name and what the user passed
ArgLists ==
    LET prog == <<"wipeshit">>
        nope == DevPrefix \o <<"n", "o">>
    IN  {<<prog>>, <<prog, DevSdb>>, <<prog, nope>>, <<prog, nope, <<"-", "f">>>>,
         <<prog, DevSdb, <<"-", "-", "force">>>>, <<prog, <<"-", "f">>>>,
         <<prog, DevSdb, <<"-", "-", "verify">>>>, <<prog, <<"-", "v">>, DevSdb>>,
         <<prog, <<"-", "-", "help">>>>, <<prog, DevSdb, <<"-", "f">>, <<"-", "h">>>>,
         <<prog, <<"-", "-", "ui">>>>}

\* args.contains(&a.to_string()) || args.contains(&b.to_string())
has_flag(args, a, b) == \E i \in 1..Len(args) : args[i] \in {a, b}

\* Path::new(&device).exists()
ExistingPaths == Devices

\* the command line before main runs, and in specifications without it
IdleCli ==
    [pc |-> "none", args |-> <<>>, device |-> NoString, force |-> FALSE,
     verify |-> FALSE, prompted |-> FALSE, typed |-> NoString, outcome |-> "none"]

\* main.rs:767-785: the arguments are parsed, --ui and --help are served
CliMain ==
    /\ cli.pc = "main"
    /\ LET args == cli.args
           device == IF Len(args) > 1 /\ ~IsPrefix(<<"-">>, args[2])
                     THEN args[2] ELSE NoString
           parsed == [cli EXCEPT
                        !.device = device,
                        !.force = has_flag(args, <<"-", "-", "force">>, <<"-", "f">>),
                        !.verify = has_flag(args, <<"-", "-", "verify">>, <<"-", "v">>)]
       IN  cli' =
             IF has_flag(args, <<"-", "-", "ui">>, <<"-", "-", "ui">>)
             THEN [cli EXCEPT !.pc = "exit", !.outcome = "ui"]
             ELSE IF has_flag(args, <<"-", "-", "help">>, <<"-", "h">>)
             THEN [parsed EXCEPT !.pc = "exit", !.outcome = "help"]
             ELSE [parsed EXCEPT !.pc = IF Len(args) > 1 /\ ~IsPrefix(<<"-">>, args[2])
                                        THEN "check" ELSE "select"]
    /\ UNCHANGED <<sess, disk_size, header_size, mounted, rejects, mapper_open, gui,
                   listing>>

\* main.rs:786-791: no device was given; select_device_interactively()? runs
\* and the user answers its prompts
ListCli ==
    /\ cli.pc = "select" /\ listing.cli = NoListing
    /\ \E choice \in Choices, risk_input \in RiskTexts :
         LET r == select_device_interactively(listing.out, listing.lsblk,
                                              choice, risk_input)
         IN  /\ listing' = [listing EXCEPT !.cli = r]
             /\ cli' = IF r.ok THEN [cli EXCEPT !.device = r.devices[1], !.pc = "check"]
                       ELSE [cli EXCEPT !.pc = "exit", !.outcome = "error"]

\* confirm_wipe with every input accepted
confirm_wipe_accepts_any(input) == TRUE

\* main.rs:989-1009: Ok(input.trim() == "DESTROY ALL DATA")
confirm_wipe(input) == trim(input) = <<"DESTROY ALL DATA">>

\* main.rs:793-812: the banner, list_block_devices()?, the existence of the
\* device, the confirmation unless forced, and the call of the pipeline
CliCheck ==
    /\ cli.pc = "check"
    /\ \E out \in Outcomes, input \in TypedTexts :
         LET asked == [cli EXCEPT !.prompted = TRUE, !.typed = input]
         IN  IF out = "io_err"
             THEN /\ cli' = [cli EXCEPT !.pc = "exit", !.outcome = "error"]
                  /\ UNCHANGED sess
             ELSE IF cli.device \notin ExistingPaths
             THEN /\ cli' = [cli EXCEPT !.pc = "exit", !.outcome = "no device"]
                  /\ UNCHANGED sess
             ELSE IF ~cli.force /\ ~confirm_wipe(input)
             THEN /\ cli' = [asked EXCEPT !.pc = "exit", !.outcome = "cancelled"]
                  /\ UNCHANGED sess
             ELSE /\ cli' = [(IF cli.force THEN cli ELSE asked) EXCEPT !.pc = "wipe"]
                  /\ Update(1, NewSession("cli", cli.device, cli.verify))
    /\ UNCHANGED <<disk_size, header_size, mounted, rejects, mapper_open, gui, listing>>

\* main.rs:812-822: the pipeline returned; its result is printed, main returns Ok
CliReturn ==
    /\ cli.pc = "wipe" /\ sess[1].pc = "done"
    /\ cli' = [cli EXCEPT !.pc = "exit",
                          !.outcome = IF sess[1].result = "err" THEN "failed"
                                      ELSE "completed"]
    /\ UNCHANGED <<sess, disk_size, header_size, mounted, rejects, mapper_open, gui,
                   listing>>

\* the orders in which a HashSet can be iterated
Orders(set) ==
    {q \in [1..Cardinality(set) -> set] :
        \A i \in DOMAIN q, j \in DOMAIN q : q[i] = q[j] => i = j}

\* Vec::get(idx) over the indices (indices count from 0)
RECURSIVE filter_map_get(_, _)
filter_map_get(indices, drives) ==
    IF indices = <<>> THEN <<>>
    ELSE (IF Head(indices) < Len(drives) THEN <<drives[Head(indices) + 1]>> ELSE <<>>)
             \o filter_map_get(Tail(indices), drives)

UiIdle == gui.lock # "ui"

UiUpdate(app) ==
    /\ gui' = [gui EXCEPT !.app = app]
    /\ UNCHANGED <<sess, disk_size, header_size, mounted, rejects, mapper_open>>

\* main.rs:174-177: the checkboxes of the landing screen
UiSetOptions ==
    /\ UiIdle /\ gui.app.state = "Landing"
    /\ \E f \in BOOLEAN, v \in BOOLEAN :
         /\ <<f, v>> # <<gui.app.force_mode, gui.app.verify_mode>>
         /\ UiUpdate([gui.app EXCEPT !.force_mode = f, !.verify_mode = v])

\* main.rs:188-195 and load_available_drives (519-524)
UiBegin ==
    /\ UiIdle /\ gui.app.state = "Landing"
    /\ \E out \in Outcomes, lines \in LsblkOutputs :
         UiUpdate([gui.app EXCEPT
                     !.available_drives =
                         IF get_block_devices(out, lines).ok
                         THEN get_block_devices(out, lines).devices ELSE @,
                     !.state = "DriveSelection",
                     !.error_message = NoString])

\* main.rs:223-236: a checkbox of the device list changes
UiToggleDrive ==
    /\ UiIdle /\ gui.app.state = "DriveSelection"
    /\ \E index \in 0..(Len(gui.app.available_drives) - 1) :
         UiUpdate([gui.app EXCEPT
                     !.selected_drives = IF index \in @ THEN @ \ {index}
                                         ELSE @ \cup {index}])

\* the way home that keeps the selection
UiBackToHome_keeps_selection ==
    /\ UiIdle /\ gui.app.state = "DriveSelection"
    /\ UiUpdate([gui.app EXCEPT !.state = "Landing", !.error_message = NoString])

\* main.rs:275-279
UiBackToHome ==
    /\ UiIdle /\ gui.app.state = "DriveSelection"
    /\ UiUpdate([gui.app EXCEPT !.state = "Landing", !.selected_drives = {},
                                !.error_message = NoString])

\* Continue enabled whatever the selection
UiContinue_without_selection ==
    /\ UiIdle /\ gui.app.state = "DriveSelection"
    /\ UiUpdate([gui.app EXCEPT !.state = "FinalConfirmation",
                                !.error_message = NoString])

\* main.rs:282-289
UiContinue ==
    /\ UiIdle /\ gui.app.state = "DriveSelection"
    /\ gui.app.selected_drives # {}
    /\ UiUpdate([gui.app EXCEPT !.state = "FinalConfirmation",
                                !.error_message = NoString])

\* main.rs:363-367: the text field is edited
UiType ==
    /\ UiIdle /\ gui.app.state = "FinalConfirmation"
    /\ \E text \in TypedTexts :
         /\ text # gui.app.confirmation_text
         /\ UiUpdate([gui.app EXCEPT !.confirmation_text = text])

\* main.rs:372-375
UiBackToSelection ==
    /\ UiIdle /\ gui.app.state = "FinalConfirmation"
    /\ UiUpdate([gui.app EXCEPT !.state = "DriveSelection",
                                !.confirmation_text = NoString])

\* the worker spawned with the confirmation screen left on
UiStartWipe_keeps_screen ==
    /\ UiIdle /\ gui.app.state = "FinalConfirmation"
    /\ trim(gui.app.confirmation_text) = confirm_text(gui.app.force_mode)
    /\ \E id \in Uuids, selected_indices \in Orders(gui.app.selected_drives) :
         gui' = [gui EXCEPT
                   !.shared = [progress |-> 0,
                               status |-> <<"Initializing LUKS crypto wipe...">>,
                               current_drive_index |-> 0,
                               total_drives |-> Cardinality(gui.app.selected_drives),
                               operation_id |-> uuid_to_string(id)],
                   !.app = [@ EXCEPT !.progress_info = TRUE,
                                     !.wipe_handle = TRUE],
                   !.worker = [NoWorker EXCEPT
                                 !.pc = "loop",
                                 !.devices = filter_map_get(selected_indices,
                                                 gui.app.available_drives),
                                 !.verify_mode = gui.app.verify_mode]]
    /\ UNCHANGED <<sess, disk_size, header_size, mounted, rejects, mapper_open>>

\* main.rs:378-386 and start_crypto_wipe_process (526-552)
UiStartWipe ==
    /\ UiIdle /\ gui.app.state = "FinalConfirmation"
    /\ trim(gui.app.confirmation_text) = confirm_text(gui.app.force_mode)
    /\ \E id \in Uuids, selected_indices \in Orders(gui.app.selected_drives) :
         gui' = [gui EXCEPT
                   !.shared = [progress |-> 0,
                               status |-> <<"Initializing LUKS crypto wipe...">>,
                               current_drive_index |-> 0,
                               total_drives |-> Cardinality(gui.app.selected_drives),
                               operation_id |-> uuid_to_string(id)],
                   !.app = [@ EXCEPT !.state = "PurgeInProgress",
                                     !.progress_info = TRUE,
                                     !.wipe_handle = TRUE],
                   !.worker = [NoWorker EXCEPT
                                 !.pc = "loop",
                                 !.devices = filter_map_get(selected_indices,
                                                 gui.app.available_drives),
                                 !.verify_mode = gui.app.verify_mode]]
    /\ UNCHANGED <<sess, disk_size, header_size, mounted, rejects, mapper_open>>

\* the join showing the completion screen whatever the worker returned
UiJoin_completes_on_error ==
    /\ UiIdle /\ gui.app.wipe_handle /\ gui.worker.pc = "finished"
    /\ gui' = [gui EXCEPT
                 !.worker = NoWorker,
                 !.app = IF gui.worker.result = "ok"
                         THEN [@ EXCEPT !.wipe_handle = FALSE,
                                        !.certificates = gui.worker.certificates,
                                        !.state = "Completion",
                                        !.progress_info = FALSE]
                         ELSE [@ EXCEPT !.wipe_handle = FALSE,
                                        !.error_message = gui.worker.error,
                                        !.state = "Completion",
                                        !.progress_info = FALSE]]
    /\ UNCHANGED <<sess, disk_size, header_size, mounted, rejects, mapper_open>>

\* the join made without asking is_finished()
UiJoin_without_is_finished ==
    /\ UiIdle /\ gui.app.wipe_handle
    /\ gui' = [gui EXCEPT
                 !.worker = NoWorker,
                 !.app = IF gui.worker.result = "ok"
                         THEN [@ EXCEPT !.wipe_handle = FALSE,
                                        !.certificates = gui.worker.certificates,
                                        !.state = "Completion",
                                        !.progress_info = FALSE]
                         ELSE [@ EXCEPT !.wipe_handle = FALSE,
                                        !.error_message = gui.worker.error,
                                        !.state = "DriveSelection",
                                        !.progress_info = FALSE]]
    /\ UNCHANGED <<sess, disk_size, header_size, mounted, rejects, mapper_open>>

\* main.rs:86-108: the frame finds the worker finished and joins it
UiJoin ==
    /\ UiIdle /\ gui.app.wipe_handle /\ gui.worker.pc = "finished"
    /\ gui' = [gui EXCEPT
                 !.worker = NoWorker,
                 !.app = IF gui.worker.result = "ok"
                         THEN [@ EXCEPT !.wipe_handle = FALSE,
                                        !.certificates = gui.worker.certificates,
                                        !.state = "Completion",
                                        !.progress_info = FALSE]
                         ELSE [@ EXCEPT !.wipe_handle = FALSE,
                                        !.error_message = gui.worker.error,
                                        !.state = "DriveSelection",
                                        !.progress_info = FALSE]]
    /\ UNCHANGED <<sess, disk_size, header_size, mounted, rejects, mapper_open>>

\* main.rs:403-404: the progress screen takes the guard with try_lock; when
\* the worker holds the lock the frame draws nothing of the record
UiTryLock ==
    /\ UiIdle /\ gui.app.state = "PurgeInProgress" /\ gui.app.progress_info
    /\ ~(gui.app.wipe_handle /\ gui.worker.pc = "finished")
    /\ gui.lock = "free"
    /\ gui' = [gui EXCEPT !.lock = "ui"]
    /\ UNCHANGED <<sess, disk_size, header_size, mounted, rejects, mapper_open>>

\* main.rs:405-450: the record is drawn and the guard dropped
UiUnlock ==
    /\ gui.lock = "ui"
    /\ gui' = [gui EXCEPT !.lock = "free"]
    /\ UNCHANGED <<sess, disk_size, header_size, mounted, rejects, mapper_open>>

\* main.rs:512-514 and reset_to_landing (564-566)
UiReturnHome ==
    /\ UiIdle /\ gui.app.state = "Completion"
    /\ UiUpdate(AppDefault)

UiStep ==
    \/ UiSetOptions \/ UiBegin \/ UiToggleDrive \/ UiBackToHome \/ UiContinue
    \/ UiType \/ UiBackToSelection \/ UiStartWipe \/ UiJoin \/ UiTryLock
    \/ UiUnlock \/ UiReturnHome

\* the positions of perform_luks_crypto_wipe_ui whose next statement is a
\* call of progress_callback (main.rs:652, 655, 658, 662, 665, 670, 674)
ReportsNext(r) == r.pc \in {"start", "format", "open", "fill", "close", "verify", "finish"}

\* main.rs:580 and 587: the worker is at progress_info.lock()
WorkerAtLock ==
    /\ gui.lock # "worker"
    /\ \/ gui.worker.pc = "loop" /\ gui.worker.drive_idx < Len(gui.worker.devices)
       \/ gui.worker.pc = "session" /\ ReportsNext(sess[1])

\* main.rs:580, 587: Mutex::lock() returns once no one else holds the lock
WorkerLock ==
    /\ WorkerAtLock /\ gui.lock = "free"
    /\ gui' = [gui EXCEPT !.lock = "worker"]
    /\ UNCHANGED <<sess, disk_size, header_size, mounted, rejects, mapper_open>>

\* main.rs:578-586: the next device of the loop; its session starts
WorkerNextDevice ==
    /\ gui.worker.pc = "loop" /\ gui.lock = "worker"
    /\ LET device == gui.worker.devices[gui.worker.drive_idx + 1]
       IN  /\ gui' = [gui EXCEPT
                        !.shared = [@ EXCEPT
                            !.current_drive_index = gui.worker.drive_idx,
                            !.status = <<"Processing device: ">> \o device],
                        !.lock = "free",
                        !.worker = [@ EXCEPT !.pc = "session"]]
           /\ sess' = [sess EXCEPT
                         ![1] = NewSession("gui", device, gui.worker.verify_mode)]
    /\ UNCHANGED <<disk_size, header_size, mounted, rejects, mapper_open>>

\* main.rs:586-591: a step of perform_luks_crypto_wipe_ui; its callback
\* writes progress and status under the lock
WorkerStep ==
    /\ gui.worker.pc = "session"
    /\ ReportsNext(sess[1]) => gui.lock = "worker"
    /\ GuiStep(1)
    /\ gui' = IF Len(sess'[1].events) > Len(sess[1].events)
              THEN [gui EXCEPT
                      !.shared = [@ EXCEPT
                          !.progress = Last(sess'[1].events).fraction,
                          !.status = Last(sess'[1].events).status],
                      !.lock = "free"]
              ELSE gui

\* the loop going on to the next device after a failed session
WorkerSessionDone_continues ==
    /\ gui.worker.pc = "session" /\ sess[1].pc = "done"
    /\ gui' = [gui EXCEPT
                 !.worker =
                     [@ EXCEPT !.certificates =
                                   IF sess[1].result = "cert"
                                   THEN Append(@, sess[1].certificate) ELSE @,
                               !.drive_idx = @ + 1,
                               !.pc = "loop"]]
    /\ UNCHANGED <<sess, disk_size, header_size, mounted, rejects, mapper_open>>

\* main.rs:592-594: the session returned
WorkerSessionDone ==
    /\ gui.worker.pc = "session" /\ sess[1].pc = "done"
    /\ gui' = [gui EXCEPT
                 !.worker =
                     IF sess[1].result = "cert"
                     THEN [@ EXCEPT !.certificates = Append(@, sess[1].certificate),
                                    !.drive_idx = @ + 1,
                                    !.pc = "loop"]
                     ELSE [@ EXCEPT !.result = "err",
                                    !.error = <<"Failed to wipe device ">>
                                                  \o sess[1].device
                                                  \o <<": ", sess[1].error>>,
                                    !.pc = "finished"]]
    /\ UNCHANGED <<sess, disk_size, header_size, mounted, rejects, mapper_open>>

\* main.rs:597: the loop is over
WorkerReturn ==
    /\ gui.worker.pc = "loop" /\ gui.worker.drive_idx = Len(gui.worker.devices)
    /\ gui' = [gui EXCEPT !.worker = [@ EXCEPT !.result = "ok", !.pc = "finished"]]
    /\ UNCHANGED <<sess, disk_size, header_size, mounted, rejects, mapper_open>>

WorkerThread ==
    \/ WorkerLock \/ WorkerNextDevice \/ WorkerStep \/ WorkerSessionDone
    \/ WorkerReturn

(***************************************************************************)
(* The preview GUI of UI.rs: the same screens over a mock wipe              *)
(***************************************************************************)
\* UI.rs:18-45: the paths of the mock drives
get_available_drives ==
    <<<<"/dev/sda">>, <<"/dev/sdb">>, <<"/dev/sdc">>, <<"/dev/nvme0n1">>>>

\* UI.rs:155-160: the theme button, shown above every screen
PreviewToggleTheme ==
    /\ gui' = [gui EXCEPT !.preview = [@ EXCEPT !.dark_mode = ~@]]
    /\ UNCHANGED <<sess, disk_size, header_size, mounted, rejects, mapper_open>>

\* UI.rs:218-238: show_landing, the two checkboxes and the begin button
PreviewLanding ==
    /\ gui.preview.state = "Landing"
    /\ \/ \E f \in BOOLEAN, v \in BOOLEAN :
              /\ <<f, v>> # <<gui.preview.force_mode, gui.preview.verify_mode>>
              /\ gui' = [gui EXCEPT !.preview =
                             [@ EXCEPT !.force_mode = f, !.verify_mode = v]]
       \/ gui' = [gui EXCEPT !.preview =
                      [@ EXCEPT !.available_drives = get_available_drives,
                                !.state = "DriveSelection",
                                !.error_message = NoString]]
    /\ UNCHANGED <<sess, disk_size, header_size, mounted, rejects, mapper_open>>

\* UI.rs:266-335: show_drive_selection, the checkboxes, Back to Home and
\* Continue
PreviewDriveSelection ==
    /\ gui.preview.state = "DriveSelection"
    /\ \/ \E index \in 0..(Len(gui.preview.available_drives) - 1) :
              gui' = [gui EXCEPT !.preview =
                         [@ EXCEPT !.selected_drives =
                              IF index \in @ THEN @ \ {index} ELSE @ \cup {index}]]
       \/ gui' = [gui EXCEPT !.preview =
                      [@ EXCEPT !.state = "Landing", !.selected_drives = {},
                                !.error_message = NoString]]
       \/ /\ gui.preview.selected_drives # {}
          /\ gui' = [gui EXCEPT !.preview =
                         [@ EXCEPT !.state = "FinalConfirmation",
                                   !.error_message = NoString]]
    /\ UNCHANGED <<sess, disk_size, header_size, mounted, rejects, mapper_open>>

\* UI.rs:401-441: show_final_confirmation, the text field, Back to Selection
\* and the start button
PreviewFinalConfirmation ==
    /\ gui.preview.state = "FinalConfirmation"
    /\ \/ \E text \in TypedTexts :
              /\ text # gui.preview.confirmation_text
              /\ gui' = [gui EXCEPT !.preview = [@ EXCEPT !.confirmation_text = text]]
       \/ gui' = [gui EXCEPT !.preview =
                      [@ EXCEPT !.state = "DriveSelection",
                                !.confirmation_text = NoString]]
       \/ /\ trim(gui.preview.confirmation_text) = confirm_text(gui.preview.force_mode)
          /\ gui' = [gui EXCEPT !.preview =
                         [@ EXCEPT !.state = "InitializingWipe",
                                   !.confirmation_text = NoString]]
    /\ UNCHANGED <<sess, disk_size, header_size, mounted, rejects, mapper_open>>

\* UI.rs:445-476 and start_crypto_wipe_process (680-695): the frame that
\* finds the clock past three seconds
PreviewInitializing ==
    /\ gui.preview.state = "InitializingWipe"
    /\ gui' = [gui EXCEPT !.preview =
                   [@ EXCEPT !.state = "PurgeInProgress", !.progress_info = TRUE]]
    /\ UNCHANGED <<sess, disk_size, header_size, mounted, rejects, mapper_open>>

\* UI.rs:588-617: show_progress_screen, the frame that finds the simulated
\* progress at 1.0 and writes one certificate per selected drive
PreviewProgress ==
    /\ gui.preview.state = "PurgeInProgress" /\ gui.preview.progress_info
    /\ \E selected_indices \in Orders(gui.preview.selected_drives) :
         gui' = [gui EXCEPT !.preview =
                    [@ EXCEPT !.certificates =
                                  @ \o filter_map_get(selected_indices,
                                                      gui.preview.available_drives),
                              !.state = "Completion",
                              !.progress_info = FALSE]]
    /\ UNCHANGED <<sess, disk_size, header_size, mounted, rejects, mapper_open>>

\* UI.rs:673-675 and reset_to_landing (722-724)
PreviewCompletion ==
    /\ gui.preview.state = "Completion"
    /\ gui' = [gui EXCEPT !.preview = PreviewDefault]
    /\ UNCHANGED <<sess, disk_size, header_size, mounted, rejects, mapper_open>>

PreviewStep ==
    \/ PreviewToggleTheme \/ PreviewLanding \/ PreviewDriveSelection
    \/ PreviewFinalConfirmation \/ PreviewInitializing \/ PreviewProgress
    \/ PreviewCompletion

(***************************************************************************)
(* Specifications                                                          *)
(***************************************************************************)
\* the header area cryptsetup luksFormat takes from a device of d bytes: the
\* pipeline never learns its size; one block stands for it, none for a
\* device whose whole size is mapped
HeaderSizes(d) == {0} \cup {h \in {block_size} : h <= d}

\* the environment a session starts in
EnvInit(d) ==
    /\ disk_size \in DeviceSizes
    /\ header_size \in HeaderSizes(disk_size)
    /\ mounted \in SUBSET ({d} \cup Range(Partitions(d)))
    /\ rejects \in 0..MaxRejects
    /\ mapper_open = [s \in Sessions |-> FALSE]

\* one call of one pipeline, on any device
Entries == {"core", "gui", "cli"}

Init ==
    \E e \in Entries, d \in Devices, v \in BOOLEAN :
        /\ sess = [s \in Sessions |->
                     IF s = 1 THEN NewSession(e, d, v) ELSE IdleSession]
        /\ EnvInit(d)
        /\ gui = GuiDefault
        /\ listing = IdleListing
        /\ cli = IdleCli

Next ==
    /\ \E s \in Sessions : CoreStep(s) \/ GuiStep(s) \/ CliStep(s)
    /\ UNCHANGED <<gui, listing, cli>>

Spec == Init /\ [][Next]_vars

\* two concurrent calls of the core pipeline on one device path
InitPair ==
    \E d \in Devices, v1 \in BOOLEAN, v2 \in BOOLEAN :
        /\ sess = [s \in Sessions |-> NewSession("core", d, IF s = 1 THEN v1 ELSE v2)]
        /\ disk_size \in {0, block_size + 1}
        /\ header_size = 0
        /\ mounted = {}
        /\ rejects \in {0, 1}
        /\ mapper_open = [s \in Sessions |-> FALSE]
        /\ gui = GuiDefault
        /\ listing = IdleListing
        /\ cli = IdleCli

NextPair ==
    /\ \E s \in Sessions : CoreStep(s)
    /\ UNCHANGED <<gui, listing, cli>>

SpecPair == InitPair /\ [][NextPair]_vars

\* one call of the core pipeline on a device large enough for the f32 casts
\* of the overwrite to round
FillSizes ==
    {k * block_size + r : k \in {1, MaxFillBlocks}, r \in {0, 1, 2, 3}}

InitFill ==
    \E v \in BOOLEAN :
        /\ sess = [s \in Sessions |->
                     IF s = 1 THEN NewSession("core", DevSdb, v) ELSE IdleSession]
        /\ disk_size \in FillSizes
        /\ header_size \in HeaderSizes(disk_size)
        /\ mounted = {}
        /\ rejects = 0
        /\ mapper_open = [s \in Sessions |-> FALSE]
        /\ gui = GuiDefault
        /\ listing = IdleListing
        /\ cli = IdleCli

NextFill ==
    /\ CoreStep(1)
    /\ UNCHANGED <<gui, listing, cli>>

SpecFill == InitFill /\ [][NextFill]_vars

\* the same session on a thread that keeps running: a step that can be taken
\* is taken
SpecFillLive == SpecFill /\ WF_vars(NextFill)

\* the GUI application after construction (main.rs:724-738)
InitGui ==
    /\ sess = [s \in Sessions |-> IdleSession]
    /\ disk_size = block_size
    /\ header_size = 0
    /\ mounted = {}
    /\ rejects \in {0, 1}
    /\ mapper_open = [s \in Sessions |-> FALSE]
    /\ gui \in {[GuiDefault EXCEPT !.program = p] : p \in {"main.rs", "UI.rs"}}
    /\ listing = IdleListing
    /\ cli = IdleCli

NextGui ==
    /\ \/ gui.program = "main.rs" /\ (UiStep \/ WorkerThread)
       \/ gui.program = "UI.rs" /\ PreviewStep
    /\ UNCHANGED <<listing, cli>>

\* one enumeration of the block devices by each of the three functions
InitList ==
    /\ sess = [s \in Sessions |-> IdleSession]
    /\ disk_size = 0
    /\ header_size = 0
    /\ mounted = {}
    /\ rejects = 0
    /\ mapper_open = [s \in Sessions |-> FALSE]
    /\ gui = GuiDefault
    /\ \E out \in Outcomes, lines \in LsblkOutputs :
         listing = [IdleListing EXCEPT !.out = out, !.lsblk = lines]
    /\ cli = [IdleCli EXCEPT !.pc = "select", !.args = <<<<"wipeshit">>>>]

NextList ==
    \/ ListCore /\ UNCHANGED <<sess, disk_size, header_size, mounted, rejects,
                                mapper_open, gui, cli>>
    \/ ListGui /\ UNCHANGED <<sess, disk_size, header_size, mounted, rejects,
                               mapper_open, gui, cli>>
    \/ ListCli /\ UNCHANGED <<sess, disk_size, header_size, mounted, rejects,
                               mapper_open, gui>>

SpecList == InitList /\ [][NextList]_vars

\* one run of the command line
InitCli ==
    /\ sess = [s \in Sessions |-> IdleSession]
    /\ disk_size = block_size
    /\ header_size = 0
    /\ mounted = {}
    /\ rejects \in {0, 1}
    /\ mapper_open = [s \in Sessions |-> FALSE]
    /\ gui = GuiDefault
    /\ \E out \in Outcomes, lines \in LsblkOutputs :
         listing = [IdleListing EXCEPT !.out = out, !.lsblk = lines]
    /\ \E args \in ArgLists : cli = [IdleCli EXCEPT !.pc = "main", !.args = args]

NextCli ==
    \/ CliMain
    \/ ListCli /\ UNCHANGED <<sess, disk_size, header_size, mounted, rejects,
                               mapper_open, gui>>
    \/ CliCheck
    \/ cli.pc = "wipe" /\ CliStep(1) /\ UNCHANGED <<gui, listing, cli>>
    \/ CliReturn

SpecCli == InitCli /\ [][NextCli]_vars

SpecGui == InitGui /\ [][NextGui]_vars

(***************************************************************************)
(* Properties                                                              *)
(***************************************************************************)
NonDecreasing(ev) ==
    \A i \in 1..(Len(ev) - 1) : ev[i].fraction <= ev[i + 1].fraction

\* the stage actions of a session in the order of the specification
StageOrder(verify) ==
    <<"unmount", "keygen", "format", "open", "overwrite", "close", "destroy">>
        \o (IF verify THEN <<"verify">> ELSE <<>>) \o <<"certificate">>

\* stage action op was invoked by r and returned success
Succeeded(r, op) ==
    \E i \in 1..Len(r.rets) : r.calls[i] = op /\ r.rets[i] = "ok"

Invoked(r, op) == \E i \in 1..Len(r.calls) : r.calls[i] = op

\* C1: every run of core perform_luks_crypto_wipe that returns a certificate
\* has reported a non-decreasing sequence of fractions whose last element is
\* exactly 1.0
C1_ProgressNonDecreasingEndsAtOne ==
    \A s \in Sessions :
        (sess[s].entry = "core" /\ sess[s].result = "cert") =>
            /\ sess[s].events # <<>>
            /\ NonDecreasing(sess[s].events)
            /\ Last(sess[s].events).fraction = Den

\* a core session with verification, several writes and several reads returned
\* a certificate
C1_Witness ==
    \E s \in Sessions :
        /\ sess[s].entry = "core" /\ sess[s].result = "cert" /\ sess[s].verify
        /\ Len(sess[s].writes) >= 2 /\ Len(sess[s].reads) >= 2

\* C2: in a core session the stage actions are invoked only in the order
\* unmount, key generation, format, open, overwrite, close, header
\* destruction, verification (only when requested), certificate; each is
\* invoked only after the one before returned success; a session that
\* returns a certificate has invoked all of them
C2_StagesInStrictOrder ==
    \A s \in Sessions :
        sess[s].entry = "core" =>
            LET r == sess[s]
            IN  /\ IsPrefix(r.calls, StageOrder(r.verify))
                /\ Len(r.calls) - Len(r.rets) \in {0, 1}
                /\ \A i \in 1..Len(r.rets) : i < Len(r.calls) => r.rets[i] = "ok"
                /\ r.result = "cert" =>
                      /\ r.calls = StageOrder(r.verify)
                      /\ \A i \in 1..Len(r.rets) : r.rets[i] = "ok"

\* a core session started without verification returned a certificate
C2_Witness ==
    \E s \in Sessions :
        /\ sess[s].entry = "core" /\ sess[s].result = "cert" /\ ~sess[s].verify
        /\ ~Invoked(sess[s], "verify")

\* the errors a stage action of the core pipeline can return
ErrorsOf(op) ==
    CASE op = "unmount" -> {"Failed to unmount", "spawn"}
      [] op = "format" -> {"Failed to create LUKS partition"}
      [] op = "open" -> {"Failed to open LUKS partition"}
      [] op = "overwrite" -> {"open mapper", "write_all", "sync_all"}
      [] op = "close" -> {"Failed to close LUKS partition"}
      [] op = "destroy" -> {"Failed to destroy LUKS header"}
      [] op = "verify" -> {"open device", "read",
                           "Verification failed: non-zero data found"}
      [] OTHER -> {}

\* C3: in a core session, when a stage action returns an error the session
\* ends with that error: the failing action is the last one invoked, nothing
\* is undone (a mapper that was opened and not closed is still open) and no
\* certificate is produced
C3_StageErrorEndsSession ==
    \A s \in Sessions :
        sess[s].entry = "core" =>
            LET r == sess[s]
            IN  \A i \in 1..Len(r.rets) :
                    r.rets[i] = "err" =>
                        /\ i = Len(r.calls)
                        /\ r.pc = "done" /\ r.result = "err"
                        /\ r.error \in ErrorsOf(r.calls[i])
                        /\ r.certificate = NoString
                        /\ ~Invoked(r, "certificate")
                        /\ (Succeeded(r, "open") /\ ~Succeeded(r, "close"))
                               => mapper_open[s]

\* a core session failed in the overwrite and its mapper is still open
C3_Witness ==
    \E s \in Sessions :
        /\ sess[s].entry = "core" /\ sess[s].result = "err"
        /\ sess[s].rets # <<>>
        /\ Last(sess[s].calls) = "overwrite" /\ Last(sess[s].rets) = "err"
        /\ sess[s].writes # <<>> /\ mapper_open[s]

Count(seq, x) == Cardinality({i \in 1..Len(seq) : seq[i] = x})

\* the last stage before the certificate
LastStage(verify) == IF verify THEN "verify" ELSE "destroy"

C4_OneOutcome ==
    \A s \in Sessions :
        LET r == sess[s]
        IN  /\ r.result \in {"none", "cert", "err"}
            /\ (r.pc = "done") <=> (r.result # "none")
            /\ (r.result = "cert") <=> (r.certificate # NoString)
            /\ (r.result = "err") <=> (r.error # "")
            /\ Count(r.calls, "certificate") = (IF r.result = "cert" THEN 1 ELSE 0)
            /\ Succeeded(r, LastStage(r.verify)) => r.pc \in {"finish", "done"}
            /\ (Succeeded(r, LastStage(r.verify)) /\ r.pc = "done") => r.result = "cert"
            /\ r.pc \notin {"idle", "done"} =>
                   ENABLED (CoreStep(s) \/ GuiStep(s) \/ CliStep(s))

C4_NothingAfterOutcome ==
    \A s \in Sessions : sess[s].result # "none" => sess'[s] = sess[s]

\* C4: every session ends with exactly one outcome, a certificate or an
\* error, never both and never neither (a running session always has a next
\* step); a session whose stages all succeeded yields exactly one
\* certificate; after the outcome the session emits nothing more
C4_ExactlyOneTerminalOutcome == []C4_OneOutcome /\ [][C4_NothingAfterOutcome]_vars

\* a core session ended with an error after its header destruction succeeded
C4_Witness ==
    \E s \in Sessions :
        /\ sess[s].entry = "core" /\ sess[s].result = "err"
        /\ Succeeded(sess[s], "destroy") /\ sess[s].events # <<>>

\* C5: the header of the raw device is overwritten only after the session's
\* mapper was closed successfully: once header destruction was invoked the
\* mapper is not open, and after close was invoked the session neither
\* writes through the mapper nor invokes the overwrite again
C5_HeaderDestroyedOnlyAfterClose ==
    \A s \in Sessions :
        LET r == sess[s]
        IN  /\ Invoked(r, "destroy") => (Succeeded(r, "close") /\ ~mapper_open[s])
            /\ Invoked(r, "close") =>
                  /\ r.pc \notin {"fill", "fill_loop"}
                  /\ \A i \in 1..Len(r.calls), j \in 1..Len(r.calls) :
                         (r.calls[i] = "close" /\ r.calls[j] = "overwrite") => j < i

\* a GUI session opened its mapper, closed it and destroyed the header
C5_Witness ==
    \E s \in Sessions :
        /\ sess[s].entry = "gui"
        /\ Succeeded(sess[s], "open") /\ Succeeded(sess[s], "destroy")

CeilDiv(a, b) == (a + b - 1) \div b

RECURSIVE Sum(_)
Sum(seq) == IF seq = <<>> THEN 0 ELSE Head(seq) + Sum(Tail(seq))

\* C6: a successful fill_with_random_data on a device of D bytes has made
\* exactly ceil(D / B) writes, B = 1 MiB, each of B bytes except the last,
\* which has D - B * (ceil(D / B) - 1) bytes; the bytes written sum to D, and
\* for D = 0 there is no write
C6_OverwriteCoversDeviceExactly ==
    \A s \in Sessions :
        (sess[s].entry = "core" /\ Succeeded(sess[s], "overwrite")) =>
            LET r == sess[s]
                D == r.device_size
                n == CeilDiv(D, block_size)
            IN  /\ Len(r.writes) = n
                /\ \A i \in 1..(n - 1) : r.writes[i] = block_size
                /\ n > 0 => r.writes[n] = D - block_size * (n - 1)
                /\ Sum(r.writes) = D
                /\ r.bytes_written = D
                /\ D = 0 => r.writes = <<>>

\* an overwrite whose last write is shorter than a block succeeded
C6_Witness ==
    \E s \in Sessions :
        /\ sess[s].entry = "core" /\ Succeeded(sess[s], "overwrite")
        /\ Len(sess[s].writes) >= 2 /\ Last(sess[s].writes) < block_size

\* C7: in every pipeline the format primitive is invoked only after the
\* unmount guard ran and succeeded in the same session
C7_FormatOnlyAfterUnmountGuard ==
    \A s \in Sessions :
        Invoked(sess[s], "format") => Succeeded(sess[s], "unmount")

\* session s holds an opened mapper: it opened it and has not closed it
ContainerOpened(s) == Succeeded(sess[s], "open") /\ mapper_open[s]

\* C8: two sessions on the same device path are never both in
\* ContainerOpened
C8_OneOpenedMapperPerDevice ==
    \A s \in Sessions, t \in Sessions :
        (s # t /\ sess[s].device = sess[t].device /\ sess[s].pc # "idle"
             /\ sess[t].pc # "idle")
            => ~(ContainerOpened(s) /\ ContainerOpened(t))

\* what of a run is not secret: its arguments, the operation id, the time and
\* what the environment answered
PublicRun(r) ==
    [device |-> r.device, verify |-> r.verify, device_size |-> r.device_size,
     wipe_id |-> r.wipe_id, completion_time |-> r.completion_time,
     pc |-> r.pc, calls |-> r.calls, rets |-> r.rets, reads |-> r.reads,
     writes |-> r.writes, error |-> r.error]

\* what a run shows its caller
Observable(r) == [events |-> r.events, certificate |-> r.certificate,
                  result |-> r.result]

\* two runs that differ at most in the passphrase show the same
SamePublicSameObservable ==
    \A s \in Sessions, t \in Sessions :
        PublicRun(sess[s]) = PublicRun(sess[t])
            => Observable(sess[s]) = Observable(sess[t])

\* the passphrase is part of no event and not of the certificate
PassphraseNotShown ==
    \A s \in Sessions :
        sess[s].passphrase # NoString =>
            /\ ~Contains(sess[s].certificate, sess[s].passphrase)
            /\ \A i \in 1..Len(sess[s].events) :
                   ~Contains(sess[s].events[i].status, sess[s].passphrase)

\* the characters a JSON string cannot hold as they are
JsonSpecial == {"\"", "\\"}

\* str with a backslash before each character of JsonSpecial
RECURSIVE BackslashEscaped(_)
BackslashEscaped(str) ==
    IF str = <<>> THEN <<>>
    ELSE (IF Head(str) \in JsonSpecial THEN <<"\\", Head(str)>> ELSE <<Head(str)>>)
             \o BackslashEscaped(Tail(str))

HasJsonSpecial(str) == \E i \in 1..Len(str) : str[i] \in JsonSpecial

\* C9 as stated: the certificate of a core session holds the operation id
\* and the device path verbatim, and nothing shown depends on the passphrase
C9_CertificateVerbatimNoPassphrase ==
    /\ \A s \in Sessions :
           sess[s].result = "cert" =>
               /\ Contains(sess[s].certificate, uuid_to_string(sess[s].wipe_id))
               /\ Contains(sess[s].certificate, sess[s].device)
    /\ SamePublicSameObservable
    /\ PassphraseNotShown

\* C9 (amended): the certificate of a core session holds the operation id
\* verbatim and the device path as a JSON string, which is the path verbatim
\* when the path has no quote and no backslash and otherwise the path with a
\* backslash before each of them; nothing shown depends on the passphrase
C9_CertificateJsonNoPassphrase ==
    /\ \A s \in Sessions :
           sess[s].result = "cert" =>
               /\ Contains(sess[s].certificate, uuid_to_string(sess[s].wipe_id))
               /\ ~HasJsonSpecial(sess[s].device)
                      => Contains(sess[s].certificate, sess[s].device)
               /\ Contains(sess[s].certificate,
                           <<"\"">> \o BackslashEscaped(sess[s].device) \o <<"\"">>)
    /\ SamePublicSameObservable
    /\ PassphraseNotShown

\* two sessions with the same arguments, id, time and environment but
\* different passphrases returned certificates, on a path with a backslash
C9_Witness ==
    \E s \in Sessions, t \in Sessions :
        /\ sess[s].result = "cert" /\ sess[t].result = "cert"
        /\ PublicRun(sess[s]) = PublicRun(sess[t])
        /\ sess[s].passphrase # sess[t].passphrase
        /\ HasJsonSpecial(sess[s].device)

\* C10: a core session on a removable device whose first two format attempts
\* are rejected and whose third would succeed retries and reaches the open
\* stage
C10_RemovableFormatRetried ==
    \A s \in Sessions :
        LET r == sess[s]
        IN  (/\ r.entry = "core" /\ r.removable /\ r.pc = "done"
             /\ Invoked(r, "format")
             /\ Count(r.calls, "format") + rejects = 2)
                => Invoked(r, "open")

\* C11: in a session on a non-removable device the format primitive is
\* invoked at most once; in every session each of open, close, header
\* destruction and verification is invoked at most once; no stage action is
\* invoked again after it returned an error
C11_NoStageInvokedTwice ==
    \A s \in Sessions :
        LET r == sess[s]
        IN  /\ ~is_removable_device(strip_dev_prefix(r.device))
                  => Count(r.calls, "format") <= 1
            /\ \A op \in {"open", "close", "destroy", "verify"} :
                   Count(r.calls, op) <= 1
            /\ \A i \in 1..Len(r.rets) :
                   r.rets[i] = "err" =>
                       \A j \in (i + 1)..Len(r.calls) : r.calls[j] # r.calls[i]

\* a session on a non-removable device ended after its format was rejected,
\* on a device that would have accepted a later attempt
C11_Witness ==
    \E s \in Sessions :
        /\ sess[s].pc = "done" /\ sess[s].rets # <<>>
        /\ ~is_removable_device(strip_dev_prefix(sess[s].device))
        /\ Last(sess[s].calls) = "format" /\ Last(sess[s].rets) = "err"
        /\ rejects = 0

\* the device of a session and its partitions
DeviceTree(r) == {r.device} \cup Range(Partitions(r.device))

\* C12: when the unmount guard returned success for a whole-disk target,
\* neither the device nor any of its partitions is mounted (so a partition
\* whose unmount failed made the guard fail and the session stop)
C12_UnmountGuardLeavesNothingMounted ==
    \A s \in Sessions :
        (/\ sess[s].entry = "core" /\ Succeeded(sess[s], "unmount")
         /\ Partitions(sess[s].device) # <<>>)
            => mounted \cap DeviceTree(sess[s]) = {}

\* C13: the unmount guard returns its unmount error for a device only after
\* two attempts on that device, the normal and the forced one
C13_ForcedUnmountBeforeError ==
    \A s \in Sessions :
        (sess[s].entry = "core" /\ sess[s].error = "Failed to unmount")
            => Count(sess[s].umounts, sess[s].device) >= 2

\* C14: the unmount guard unmounts the partitions of a whole-disk target
\* before the device itself, it does so for every whole-disk target (a
\* partition that is mounted when the guard succeeded was at least
\* attempted), and for a partition target it unmounts only that partition
C14_PartitionsBeforeWholeDisk ==
    \A s \in Sessions :
        (sess[s].entry = "core" /\ Invoked(sess[s], "unmount")) =>
            LET r == sess[s]
                u == r.umounts
                parts == Range(Partitions(r.device))
            IN  /\ \A i \in 1..Len(u), j \in 1..Len(u) :
                       (u[i] = r.device /\ u[j] \in parts) => j < i
                /\ Succeeded(r, "unmount") =>
                       \A p \in parts : p \in mounted => p \in Range(u)
                /\ parts = {} => Range(u) \subseteq {r.device}

\* C15: the certificate of a core session reports verification as performed
\* exactly when the session was started with verify = true and the
\* verification ran and passed
C15_VerificationStatusReflectsSession ==
    \A s \in Sessions :
        (sess[s].entry = "core" /\ sess[s].result = "cert") =>
            (Contains(sess[s].certificate, <<"VERIFIED SECURE">>)
                <=> (sess[s].verify /\ Succeeded(sess[s], "verify")))

\* C16: once the container was opened the session holds no passphrase, up to
\* and including its terminal state
C16_PassphraseDroppedAfterOpen ==
    \A s \in Sessions :
        (sess[s].entry = "core" /\ Succeeded(sess[s], "open"))
            => ~passphrase_in_scope(sess[s])

\* C17: the mapper name of a session is "cryptowipe_" followed by its
\* operation id, and two sessions with different operation ids have
\* different mapper names
C17_MapperNameInjective ==
    \A s \in Sessions, t \in Sessions :
        LET r == sess[s]
            q == sess[t]
        IN  /\ r.mapper_name # NoString =>
                   /\ IsPrefix(<<"cryptowipe_">>, r.mapper_name)
                   /\ Contains(r.mapper_name, uuid_simple(r.wipe_id))
            /\ (/\ r.mapper_name # NoString /\ q.mapper_name # NoString
                /\ r.wipe_id # q.wipe_id)
                   => r.mapper_name # q.mapper_name

\* two sessions with different operation ids both hold an opened mapper
C17_Witness ==
    \E s \in Sessions, t \in Sessions :
        /\ sess[s].wipe_id # sess[t].wipe_id
        /\ sess[s].mapper_name # NoString /\ sess[t].mapper_name # NoString
        /\ mapper_open[s] /\ mapper_open[t]

\* C18: the worker never waits on the UI to report progress: whenever the
\* worker is at the lock of the shared progress record, the lock is not held
\* by the UI, so taking it needs no step of the UI loop
C18_ProgressDeliveryNeverWaitsOnUi ==
    WorkerAtLock => gui.lock # "ui"


\* the stage of the specification a progress event belongs to, by the place
\* of the source that emits its status text
StageOfStatus(text) ==
    CASE text \in {"Starting LUKS crypto wipe for ", "Preparing device...",
                   "Device prepared"} -> "Preparing"
      [] text \in {"Generating cryptographic key...",
                   "Cryptographic key generated",
                   "Cryptographic key generated: "} -> "KeyGenerated"
      [] text \in {"Setting up LUKS encryption...",
                   "LUKS encryption setup complete"} -> "ContainerCreated"
      [] text \in {"Opening encrypted partition...",
                   "Encrypted partition opened"} -> "ContainerOpened"
      [] text \in {"Starting secure data overwrite...",
                   "Overwriting with encrypted random data: ",
                   "Data overwrite complete",
                   "Filling with encrypted random data...",
                   "Random data fill completed"} -> "Overwriting"
      [] text \in {"Closing encrypted partition...",
                   "Destroying encryption keys...",
                   "Keys and headers destroyed",
                   "Closing partition and destroying keys..."} -> "Closed"
      [] text \in {"Starting verification...", "Verifying wipe: ",
                   "Verifying wipe completion..."} -> "Verifying"
      [] OTHER -> "Complete"

\* the range of a stage, in hundredths
StageRange(stage) ==
    CASE stage = "Preparing" -> <<0, 5>>
      [] stage = "KeyGenerated" -> <<5, 10>>
      [] stage = "ContainerCreated" -> <<10, 20>>
      [] stage = "ContainerOpened" -> <<20, 25>>
      [] stage = "Overwriting" -> <<25, 75>>
      [] stage = "Closed" -> <<75, 90>>
      [] stage = "Verifying" -> <<90, 100>>
      [] OTHER -> <<100, 100>>

\* C19: every progress event of the core pipeline and of the GUI pipeline
\* carries a fraction inside the range of the stage that emits it
C19_FractionInsideStageRange ==
    \A s \in Sessions :
        sess[s].entry \in {"core", "gui"} =>
            \A i \in 1..Len(sess[s].events) :
                LET e == sess[s].events[i]
                    range == StageRange(StageOfStatus(e.status[1]))
                IN  /\ Hundredths(range[1]) <= e.fraction
                    /\ e.fraction <= Hundredths(range[2])

\* C20: a core session started with verify = false never invokes the
\* verification and never reads the raw device, reports no fraction strictly
\* between 0.90 and 1.0, and when its header destruction succeeded it ends
\* with the 1.0 event right after the 0.90 event and with the certificate
C20_NoVerifySkipsToComplete ==
    \A s \in Sessions :
        (sess[s].entry = "core" /\ ~sess[s].verify) =>
            LET r == sess[s]
                n == Len(r.events)
            IN  /\ ~Invoked(r, "verify")
                /\ r.reads = <<>> /\ r.bytes_read = 0
                /\ \A i \in 1..n :
                       ~(Hundredths(90) < r.events[i].fraction
                             /\ r.events[i].fraction < Hundredths(100))
                /\ (Succeeded(r, "destroy") /\ r.pc = "done") =>
                       /\ r.result = "cert"
                       /\ SubSeq(r.calls, Len(r.calls) - 1, Len(r.calls))
                              = <<"destroy", "certificate">>
                       /\ r.events[n - 1] =
                              [fraction |-> Hundredths(90),
                               status |-> <<"Keys and headers destroyed">>]
                       /\ r.events[n] =
                              [fraction |-> Hundredths(100),
                               status |-> <<"Operation complete!">>]

\* a core session without verification wrote a device of several blocks and
\* returned its certificate
C20_Witness ==
    \E s \in Sessions :
        /\ sess[s].entry = "core" /\ ~sess[s].verify /\ sess[s].result = "cert"
        /\ Len(sess[s].writes) >= 2

\* C21: during the overwrite of a core session a progress value is reported
\* after every block write, and the reported value bytes_written / device_size
\* is 1.0 exactly at the last of the ceil(D / B) writes and at no earlier write
C21_FillProgressOneOnlyAtLastWrite ==
    \A s \in Sessions :
        LET r == sess[s]
        IN  r.entry = "core" =>
                /\ Len(r.fill_progress) = Len(r.writes)
                /\ \A i \in 1..Len(r.fill_progress) :
                       is_one(r.fill_progress[i])
                           <=> i = CeilDiv(r.device_size, block_size)

\* C24: the overwrite of a core session never writes beyond the capacity of
\* the device it writes to: the byte count handed to fill_with_random_data is
\* at most the capacity of the mapped device
C24_FillCountWithinMapperCapacity ==
    \A s \in Sessions :
        LET r == sess[s]
        IN  (r.entry = "core" /\ Invoked(r, "overwrite")) =>
                r.device_size <= mapper_capacity

\* an enumeration that succeeded and left no eligible device
NothingEligible ==
    listing.out = "ok" /\ parse_devices(listing.lsblk) = <<>>

\* C22: when the enumeration succeeds but no eligible device remains after
\* filtering, each of list_block_devices, get_block_devices and
\* select_device_interactively that has run returned no error (and the first
\* two an empty list)
C22_NothingEligibleIsNoError ==
    NothingEligible =>
        /\ listing.core # NoListing => listing.core = ListOk(<<>>)
        /\ listing.gui # NoListing => listing.gui = ListOk(<<>>)
        /\ listing.cli # NoListing => listing.cli.ok

\* the command line was given --help or -h (and not --ui)
HelpRequested ==
    /\ has_flag(cli.args, <<"-", "-", "help">>, <<"-", "h">>)
    /\ ~has_flag(cli.args, <<"-", "-", "ui">>, <<"-", "-", "ui">>)

\* C23 as stated: the CLI invokes the wipe pipeline only if the target path
\* exists and either --force / -f was given or the user typed exactly
\* DESTROY ALL DATA; with --help / -h nothing is asked and no pipeline runs
C23_CliWipeOnlyAfterExactPhrase ==
    /\ sess[1].entry = "cli" =>
           /\ sess[1].device \in ExistingPaths
           /\ \/ has_flag(cli.args, <<"-", "-", "force">>, <<"-", "f">>)
              \/ cli.prompted /\ cli.typed = <<"DESTROY ALL DATA">>
    /\ HelpRequested => (~cli.prompted /\ \A s \in Sessions : sess[s].entry = "none")

\* C23, amended: the CLI invokes the wipe pipeline only if the target path
\* exists and either --force / -f was given or the user typed DESTROY ALL DATA,
\* white space before and after it ignored; with --help / -h nothing is asked
\* and no pipeline runs
C23_CliWipeOnlyAfterConfirmation ==
    /\ sess[1].entry = "cli" =>
           /\ sess[1].device \in ExistingPaths
           /\ \/ has_flag(cli.args, <<"-", "-", "force">>, <<"-", "f">>)
              \/ cli.prompted /\ trim(cli.typed) = <<"DESTROY ALL DATA">>
    /\ HelpRequested => (~cli.prompted /\ \A s \in Sessions : sess[s].entry = "none")

\* the pipeline ran after the user, not forcing, typed the phrase
C23_Witness ==
    /\ sess[1].entry = "cli" /\ sess[1].calls # <<>>
    /\ ~cli.force /\ cli.prompted /\ cli.typed = <<"DESTROY ALL DATA">>

\* a core or GUI session that ended with an error after its container was
\* opened and before it was closed
FailedWhileOpen(r) ==
    /\ r.entry \in {"core", "gui"} /\ r.result = "err"
    /\ Succeeded(r, "open") /\ ~Succeeded(r, "close")

\* C25 as stated: a session that fails after the container was opened and
\* before it was closed (an error in the overwrite, or in close itself) has
\* never invoked close, its mapper is still open in the terminal state and the
\* header destruction was never invoked
C25_FailedWhileOpenNeverInvokedClose ==
    \A s \in Sessions :
        FailedWhileOpen(sess[s]) =>
            /\ ~Invoked(sess[s], "close")
            /\ mapper_open[s]
            /\ ~Invoked(sess[s], "destroy")

\* C25, amended: a session that fails after the container was opened and
\* before it was closed has no successful close: it failed in the overwrite
\* and never invoked close, or it failed in its one call of close; its mapper
\* is still open in the terminal state and the header destruction was never
\* invoked
C25_FailedWhileOpenLeavesMapperOpen ==
    \A s \in Sessions :
        LET r == sess[s]
        IN  FailedWhileOpen(r) =>
                /\ \/ ~Invoked(r, "close") /\ Last(r.calls) = "overwrite"
                   \/ Count(r.calls, "close") = 1 /\ Last(r.calls) = "close"
                /\ mapper_open[s]
                /\ ~Invoked(r, "destroy")

\* a session whose one call of close failed ended with that error and its
\* mapper open
C25_Witness ==
    \E s \in Sessions :
        /\ FailedWhileOpen(sess[s]) /\ mapper_open[s]
        /\ Last(sess[s].calls) = "close"
        /\ sess[s].error = "Failed to close LUKS partition"

\* C26: in the GUI and CLI pipelines of main.rs a session whose dd process
\* reported failure through its exit status has failed: it has ended with an
\* error, close, header destruction and certificate generation were not
\* invoked and no certificate is returned
C26_DdExitFailureFailsSession ==
    \A s \in Sessions :
        LET r == sess[s]
        IN  (r.entry \in {"gui", "cli"} /\ r.dd_status = "exit_fail"
                 /\ Len(r.rets) = Len(r.calls)) =>
                /\ r.result = "err"
                /\ ~Invoked(r, "close") /\ ~Invoked(r, "destroy")
                /\ ~Invoked(r, "certificate")

\* C27: in a GUI batch the certificate of every device whose session completed
\* is delivered: when the UI joins the worker, also a worker that failed at a
\* later device, the certificates the UI holds are those of the completed
\* devices
C27_JoinDeliversCompletedCertificates ==
    [][(gui.worker.pc = "finished" /\ gui'.worker.pc # "finished")
           => gui'.app.certificates = gui.worker.certificates]_vars

\* C30: in the GUI of main.rs, whenever FinalConfirmation is entered after a
\* wipe attempt (from the DriveSelection screen a failed wipe returned to,
\* which shows the error of the worker), confirmation_text is empty, so that
\* the phrase has to be typed again before the next worker start
C30_ConfirmationEmptyAfterAttempt ==
    [][(/\ gui.app.state = "DriveSelection"
        /\ gui.app.error_message # NoString
        /\ gui'.app.state = "FinalConfirmation")
           => gui'.app.confirmation_text = NoString]_vars

\* the stage actions before the verification all succeeded
AllBeforeVerifySucceeded(r) ==
    \A op \in {"format", "open", "overwrite", "close", "destroy"} : Succeeded(r, op)

C29_OneOnlyFromCompleteSession ==
    \A s \in Sessions :
        LET r == sess[s]
        IN  r.result = "err" =>
                \A i \in 1..Len(r.events) : r.events[i].fraction # Hundredths(100)

\* C31: execute_crypto_wipe_threaded wipes the devices one after another in
\* list order, never two at once, and stops at the first failing device: the
\* only session that ever runs is the one of the device at the loop index, the
\* index moves by one and only past a device whose session returned a
\* certificate, and once a session has failed or the worker has returned no
\* primitive is invoked any more by that worker
C31_BatchSequentialStopsAtFirstFailure ==
    [][/\ sess' # sess =>
              /\ gui'.worker.pc = "session"
              /\ gui'.worker.drive_idx < Len(gui'.worker.devices)
              /\ sess'[1].device = gui'.worker.devices[gui'.worker.drive_idx + 1]
              /\ sess'[2] = IdleSession
       /\ (gui.worker.pc # "none" /\ gui'.worker.pc # "none"
               /\ gui'.worker.drive_idx # gui.worker.drive_idx) =>
              /\ gui'.worker.drive_idx = gui.worker.drive_idx + 1
              /\ sess[1].result = "cert"
       /\ (\/ gui.worker.pc = "session" /\ sess[1].result = "err"
           \/ gui.worker.pc = "finished") =>
              sess' = sess]_vars

\* the first of two devices failed and the worker returned without a session
\* for the second
C31_Witness ==
    /\ gui.worker.pc = "finished" /\ gui.worker.result = "err"
    /\ Len(gui.worker.devices) = 2 /\ gui.worker.drive_idx = 0
    /\ sess[1].device = gui.worker.devices[1] /\ sess[1].result = "err"
    /\ Invoked(sess[1], "format")

\* a wipe worker thread exists
WorkerExists == gui.worker.pc # "none"

\* C32: in the GUI of main.rs at most one wipe worker exists at any time:
\* while a worker exists wipe_handle is Some and the screen is PurgeInProgress,
\* and a worker is spawned only from FinalConfirmation, when no worker exists
\* and wipe_handle is None
C32_AtMostOneWorker ==
    /\ [](WorkerExists =>
              (gui.app.wipe_handle /\ gui.app.state = "PurgeInProgress"))
    /\ [][(gui'.worker.pc = "loop" /\ gui'.worker.drive_idx = 0
               /\ gui'.worker.certificates = <<>> /\ gui.worker.pc # "loop") =>
              /\ ~WorkerExists /\ ~gui.app.wipe_handle
              /\ gui.app.state = "FinalConfirmation"]_vars

\* a worker runs the session of a device while the progress screen is shown
C32_Witness ==
    /\ gui.worker.pc = "session" /\ sess[1].pc = "open"
    /\ gui.app.wipe_handle /\ gui.app.state = "PurgeInProgress"

\* C33: the GUI update loop of main.rs never blocks on the worker: it takes
\* the lock of the progress record only when the lock is free (try_lock) and
\* gives it back in the same frame without a step of the worker, it joins the
\* worker only when the worker has finished, and worker and UI never
\* deadlock: some step is always possible, and a worker waiting for the lock
\* waits for a UI that can release it
C33_UiNeverBlocksOnWorker ==
    /\ [](/\ ENABLED NextGui
          /\ gui.lock = "ui" => ENABLED UiUnlock
          /\ (WorkerAtLock /\ gui.lock # "free") => (gui.lock = "ui" /\ ENABLED UiUnlock))
    /\ [][/\ (gui'.lock = "ui" /\ gui.lock # "ui") => gui.lock = "free"
          /\ (gui.app.wipe_handle /\ ~gui'.app.wipe_handle) =>
                 (gui.worker.pc = "finished" /\ gui.lock # "ui")]_vars

\* the worker is at lock() while the frame of the progress screen holds the
\* guard it took with try_lock
C33_Witness ==
    /\ gui.lock = "ui" /\ WorkerAtLock
    /\ gui.worker.pc = "session" /\ gui.app.state = "PurgeInProgress"

\* the update step that joins the finished worker
JoinStep == gui.worker.pc = "finished" /\ gui'.worker.pc # "finished"

C35_SelectionIndexesAvailableDrives ==
    /\ \A index \in gui.app.selected_drives :
           index >= 0 /\ index < Len(gui.app.available_drives)
    /\ WorkerExists =>
           /\ Len(gui.worker.devices) = Cardinality(gui.app.selected_drives)
           /\ gui.shared.total_drives = Len(gui.worker.devices)
           /\ \A k \in 1..Len(gui.worker.devices) :
                  \E index \in gui.app.selected_drives :
                      gui.worker.devices[k] = gui.app.available_drives[index + 1]

\* a worker was given both devices of a list of two
C35_Witness ==
    /\ WorkerExists /\ Len(gui.worker.devices) = 2
    /\ gui.app.selected_drives = {0, 1}
    /\ Len(gui.app.available_drives) = 2
    /\ gui.shared.total_drives = 2

\* the frame of the progress screen holds the guard and reads the record of
\* a batch of several devices
UiReadsBatchRecord ==
    /\ gui.lock = "ui" /\ WorkerExists /\ gui.shared.total_drives > 1

\* C36: whenever the GUI reads the progress record during a batch of several
\* devices, the fraction it reads is 0 or was reported by the session of the
\* device that current_drive_index names
C36_ReadFractionBelongsToIndexedDevice ==
    UiReadsBatchRecord =>
        \/ gui.shared.progress = 0
        \/ /\ gui.shared.current_drive_index < Len(gui.worker.devices)
           /\ sess[1].device = gui.worker.devices[gui.shared.current_drive_index + 1]
           /\ \E i \in 1..Len(sess[1].events) :
                  sess[1].events[i].fraction = gui.shared.progress

\* the edges a screen state may take from the record old to the record new;
\* wipe is the screen the start button leads to, phrase_ok what the start
\* button asks of the typed text, default the record of a fresh application
ScreenEdge(old, new, wipe, phrase_ok, default) ==
    \/ old.state = "Landing" /\ new.state = "DriveSelection"
    \/ /\ old.state = "DriveSelection" /\ new.state = "Landing"
       /\ new.selected_drives = {}
    \/ /\ old.state = "DriveSelection" /\ new.state = "FinalConfirmation"
       /\ old.selected_drives # {}
    \/ old.state = "FinalConfirmation" /\ new.state = "DriveSelection"
    \/ /\ old.state = "FinalConfirmation" /\ new.state = wipe
       /\ phrase_ok /\ old.selected_drives # {}
    \/ /\ old.state = "InitializingWipe" /\ new.state = "PurgeInProgress"
       /\ wipe = "InitializingWipe" /\ old.selected_drives # {}
    \/ old.state = "PurgeInProgress" /\ new.state = "Completion"
    \/ /\ old.state = "PurgeInProgress" /\ new.state = "DriveSelection"
       /\ wipe = "PurgeInProgress"
    \/ old.state = "Completion" /\ new.state = "Landing" /\ new = default

\* C37, as stated: the screen state of main.rs and of UI.rs changes only
\* along the listed edges, the start button acting only when the typed text
\* equals the required phrase
C37_ScreenEdgesExactPhrase ==
    [][/\ gui'.app.state # gui.app.state =>
              ScreenEdge(gui.app, gui'.app, "PurgeInProgress",
                         gui.app.confirmation_text = confirm_text(gui.app.force_mode),
                         AppDefault)
       /\ gui'.preview.state # gui.preview.state =>
              ScreenEdge(gui.preview, gui'.preview, "InitializingWipe",
                         gui.preview.confirmation_text
                             = confirm_text(gui.preview.force_mode),
                         PreviewDefault)]_vars

\* C37, amended: the same edges, the start button acting only when the typed
\* text without its leading and trailing whitespace equals the required
\* phrase; a wipe never starts with an empty selection
C37_ScreenEdges ==
    [][/\ gui'.app.state # gui.app.state =>
              ScreenEdge(gui.app, gui'.app, "PurgeInProgress",
                         trim(gui.app.confirmation_text)
                             = confirm_text(gui.app.force_mode),
                         AppDefault)
       /\ gui'.preview.state # gui.preview.state =>
              ScreenEdge(gui.preview, gui'.preview, "InitializingWipe",
                         trim(gui.preview.confirmation_text)
                             = confirm_text(gui.preview.force_mode),
                         PreviewDefault)
       /\ (gui'.worker.pc # "none" /\ gui.worker.pc = "none") =>
              (gui.app.selected_drives # {} /\ gui'.worker.devices # <<>>)]_vars

\* main.rs runs a wipe that the start button began on a phrase typed with
\* blanks around it
C37_Witness ==
    /\ gui.program = "main.rs" /\ gui.app.state = "PurgeInProgress"
    /\ WorkerExists /\ gui.app.selected_drives # {}
    /\ gui.app.confirmation_text = <<" ", "DESTROY ALL DATA", " ">>

\* C38: core verify_wipe returns success only after it has read all
\* device_size bytes of the device: a verification that returned Ok has read
\* as many bytes as the device has
C38_VerifySuccessReadWholeDevice ==
    \A s \in Sessions :
        LET r == sess[s]
        IN  \A i \in 1..Len(r.rets) :
                (r.entry = "core" /\ r.calls[i] = "verify" /\ r.rets[i] = "ok") =>
                    r.bytes_read = disk_size

\* C39: the overwrite loop of fill_with_random_data terminates: a write that
\* succeeds adds at least one byte and at most the remaining bytes to
\* bytes_written, a write that fails ends the loop at once with an error,
\* the loop is otherwise left only with bytes_written = device_size, and a
\* session in the loop leaves it
C39_FillLoopTerminates ==
    /\ [][\A s \in Sessions :
              (sess[s].entry = "core" /\ sess[s].pc = "fill_loop"
                   /\ sess'[s] # sess[s]) =>
                  LET remaining == sess[s].device_size - sess[s].bytes_written
                      added == sess'[s].bytes_written - sess[s].bytes_written
                  IN  \/ /\ sess'[s].pc = "fill_loop"
                         /\ added >= 1 /\ added <= remaining
                         /\ sess'[s].writes = Append(sess[s].writes, added)
                      \/ /\ sess'[s].pc = "done" /\ sess'[s].result = "err"
                         /\ sess'[s].error = "write_all"
                         /\ remaining > 0 /\ added = 0
                      \/ /\ sess'[s].pc # "fill_loop"
                         /\ remaining = 0 /\ added = 0]_vars
    /\ \A s \in Sessions :
           (sess[s].entry = "core" /\ sess[s].pc = "fill_loop")
               ~> (sess[s].pc # "fill_loop")

\* the loop was left after one write per block and one of the odd bytes,
\* the whole size written
C39_Witness ==
    /\ sess[1].entry = "core" /\ sess[1].pc = "close"
    /\ sess[1].device_size = MaxFillBlocks * block_size + 3
    /\ sess[1].bytes_written = sess[1].device_size
    /\ Len(sess[1].writes) = MaxFillBlocks + 1
    /\ sess[1].writes[Len(sess[1].writes)] = 3

=============================================================================
